---- MODULE Spec2Model ----
(***************************************************************************)
(* A model of django-yamldoc: field selection and site traversal           *)
(* (yamldoc/util/traverse.py), markup resolution                           *)
(* (yamldoc/util/resolution.py), the refinement command                    *)
(* (yamldoc/management/misc.py) and mass instantiation                     *)
(* (yamldoc/models.py, yamldoc/util/misc.py).                              *)
(*                                                                         *)
(* Python's None is the string None below, which no field holds as text.    *)
(* Python strings that are taken apart (titles, slugs) are sequences of    *)
(* one-character strings; opaque field contents are TLA+ strings.          *)
(***************************************************************************)
EXTENDS Integers, Sequences, FiniteSets, TLC

VARIABLES
    \* --- field selection (classbased_selector and its closure) ---
    sel_module,     \* "traverse" or "resolution": which module's selector
    sel_allowlist,  \* the allowlist tuple passed to classbased_selector
    sel_model,      \* the model passed to the closure
    sel_pc,         \* "init", "built", "raised", "applied"
    sel_err,        \* name of the exception raised at construction, or ""
    sel_result,     \* the tuple returned by the closure
    \* --- traversal and resolution (site/app/model/instance, map_resolver) ---
    apps,           \* django.apps.apps.all_models: tuple of apps, each a tuple of models
    db,             \* model -> rows in storage, in objects.all() order
    db0,            \* storage as it was when the pass started
    resolver,       \* the resolver passed to map_resolver
    field_selector, \* the field_selector argument of the traversal
    screen_arg,     \* the screen argument of the traversal
    pc,             \* position of the caller of map_resolver
    level,          \* where the traversal generators stand
    ai, mi, ii, fi, \* loop positions of site, app, model and instance
    screen,         \* the Screen in force inside app()
    field_allowlist,\* iteration order of model()'s frozenset
    insts,          \* instances loaded by model_.objects.all(), in memory
    node,           \* the node last yielded
    log,            \* the events of the pass so far
    \* --- refinement and mass instantiation (UploadableMixin) ---
    additive,       \* the --additive flag of the refinement command
    tbl0,           \* rows of cls in storage when the command starts
    tbl,            \* rows of cls in storage
    next_pk,        \* next value of the AutoField
    raws,           \* the batch passed to create_en_masse
    cpc,            \* "handle", "create", "creating", "finishing",
                    \* "returned", "raised", "no_files"
    ci,             \* position of _iterate_over_raw_data in raws
    by_pk,          \* the dict built by _instantiate_en_masse, in insertion order
    fin,            \* position of _finishing in by_pk
    snapshot,       \* storage at the start of the atomic block
    cerr,           \* name of the exception that left create_en_masse, or ""
    errlog,         \* messages passed to logging.error
    \* --- resolvers on a string (util/resolution.py) ---
    t_fn,           \* the function called
    t_raw,          \* its argument raw
    t_subject,      \* pk of the instance passed with it, 0 when there is none
    t_pc,           \* "start", "once", "twice"
    t_out,          \* what the call returned
    t_again,        \* what the function returned when given t_out
    \* --- mapping functions for fragments (util/misc.py, util/file.py) ---
    o_fn,           \* the function called
    o_fields,       \* the field names it closes over
    o_key,          \* the key unique_alphabetizer closes over
    o_fragment,     \* the mapping passed to it, as a tuple of entries
    o_pc,           \* "start", "once", "twice"
    o_out,          \* the mapping returned
    o_again,        \* the mapping returned when o_out is passed in turn
    \* --- _compose of the editing command (management/misc.py) ---
    c_update,       \* is_update
    c_file0,        \* what is at filepath when _compose is called
    c_file,         \* what is at filepath now
    c_data,         \* the text _data_from_subject produces for the subject
    c_pc,           \* "start", "refused", "composed", "written", "abstained"
    c_called,       \* whether _data_from_subject has been called
    c_errors,       \* messages passed to logging.error
    \* --- screen_from_acl (util/traverse.py) ---
    a_allow,        \* the allow argument
    a_deny,         \* the deny argument
    a_model,        \* the model the returned screen is asked about
    a_pc,           \* "start", "built", "raised", "asked"
    a_err,          \* name of the exception raised, or ""
    a_admits        \* what the screen answered

vars == <<sel_module, sel_allowlist, sel_model, sel_pc, sel_err, sel_result,
          apps, db, db0, resolver, field_selector, screen_arg, pc, level,
          ai, mi, ii, fi, screen, field_allowlist, insts, node, log,
          additive, tbl0,
          tbl, next_pk, raws, cpc, ci, by_pk, fin, snapshot, cerr, errlog,
          t_fn, t_raw, t_subject, t_pc, t_out, t_again,
          o_fn, o_fields, o_key, o_fragment, o_pc, o_out, o_again,
          c_update, c_file0, c_file, c_data, c_pc, c_called, c_errors,
          a_allow, a_deny, a_model, a_pc, a_err, a_admits>>

sel_vars == <<sel_module, sel_allowlist, sel_model, sel_pc, sel_err, sel_result>>

res_vars == <<apps, db, db0, resolver, field_selector, screen_arg, pc, level,
              ai, mi, ii, fi, screen, field_allowlist, insts, node, log>>

cre_vars == <<additive, tbl0, tbl, next_pk, raws, cpc, ci, by_pk, fin, snapshot, cerr, errlog>>

-----------------------------------------------------------------------------
(* Bounds *)

\* longest allowlist tuple passed to classbased_selector
MaxAllow == 2

\* most rows stored per model when a traversal starts
MaxInst == 2

\* longest batch passed to create_en_masse
MaxBatch == 2

\* most pieces (words, emphases, shorthand tokens) in a text given to a resolver
MaxText == 2

\* most entries of a fragment given to a mapping function
MaxKeys == 3

\* most field names that field_order_fn closes over
MaxFields == 2

-----------------------------------------------------------------------------
(* Generic helpers *)

Range(s) == {s[i] : i \in 1..Len(s)}

\* Python's filter() over a tuple, as a tuple
RECURSIVE Filter(_, _)
Filter(keep, s) ==
    IF s = <<>> THEN <<>>
    ELSE IF Head(s) \in keep THEN <<Head(s)>> \o Filter(keep, Tail(s))
         ELSE Filter(keep, Tail(s))

\* all tuples over S of length 0..n
SeqsUpTo(S, n) == UNION {[1..k -> S] : k \in 0..n}

\* every order in which a set can be iterated
Orderings(S) == {s \in [1..Cardinality(S) -> S] : Range(s) = S}

None == "None"

-----------------------------------------------------------------------------
(* The classes and models of the site *)

\* the classes that occur in allowlists, with their direct base class
Types == {"Field", "CharField", "TextField", "MarkupField", "int"}

Base == [Field |-> "object", CharField |-> "Field", TextField |-> "Field",
         MarkupField |-> "TextField", int |-> "object", object |-> "object"]

\* the classes t is a subclass of, itself included (its MRO)
RECURSIVE Mro(_)
Mro(t) == IF t = "object" THEN {"object"} ELSE {t} \cup Mro(Base[t])

\* the fields that models declare: class, null flag and unique flag
FieldDefs ==
    [title   |-> [type |-> "CharField",   null |-> FALSE, unique |-> TRUE],
     summary |-> [type |-> "MarkupField", null |-> FALSE, unique |-> FALSE],
     body    |-> [type |-> "MarkupField", null |-> FALSE, unique |-> FALSE],
     memo    |-> [type |-> "MarkupField", null |-> TRUE,  unique |-> FALSE],
     text    |-> [type |-> "TextField",   null |-> TRUE,  unique |-> FALSE]]

FieldNames == DOMAIN FieldDefs

NoAttr == [has |-> FALSE, val |-> <<>>]

Attr(v) == [has |-> TRUE, val |-> v]

\* The models: fields is _meta.get_fields(), fields_with_markup the class
\* attribute (absent unless declared), meta_fields_with_markup the attribute
\* of the same name on _meta, which Django's Options never carries.
ModelDefs ==
    [Doc   |-> [fields |-> <<"title", "summary", "body">>,
                fields_with_markup |-> NoAttr,
                meta_fields_with_markup |-> NoAttr],
     Small |-> [fields |-> <<"title", "summary", "body">>,
                fields_with_markup |-> Attr(<<"body">>),
                meta_fields_with_markup |-> NoAttr],
     Memo  |-> [fields |-> <<"title", "memo">>,
                fields_with_markup |-> NoAttr,
                meta_fields_with_markup |-> NoAttr],
     Plain |-> [fields |-> <<"title", "text">>,
                fields_with_markup |-> NoAttr,
                meta_fields_with_markup |-> NoAttr],
     Promo |-> [fields |-> <<"title", "text">>,
                fields_with_markup |-> Attr(<<"title">>),
                meta_fields_with_markup |-> NoAttr]]

ModelNames == DOMAIN ModelDefs

-----------------------------------------------------------------------------
(* Field selection: traverse.py and resolution.py *)

\* is_allowed comparing the field's class itself, not its base classes
is_allowed_exact_type(f, allowlist) ==
    FieldDefs[f].type \in Range(allowlist)

\* isinstance(field, allowlist)
is_allowed(f, allowlist) ==
    Mro(FieldDefs[f].type) \cap Range(allowlist) # {}

\* traverse.get_explicit_fields: the class attribute, or AttributeError
traverse_get_explicit_fields(m) == ModelDefs[m].fields_with_markup

\* resolution.get_explicit_fields: the attribute of _meta, or AttributeError
resolution_get_explicit_fields(m) == ModelDefs[m].meta_fields_with_markup

\* the closure field_selector returned by traverse.classbased_selector
traverse_field_selector(allowlist, m) ==
    LET explicit == traverse_get_explicit_fields(m)
    IN  IF explicit.has THEN explicit.val
        ELSE Filter({f \in FieldNames : is_allowed(f, allowlist)},
                    ModelDefs[m].fields)

\* the closure field_selector returned by resolution.classbased_selector
resolution_field_selector(allowlist, m) ==
    LET explicit == resolution_get_explicit_fields(m)
    IN  IF explicit.has THEN explicit.val
        ELSE Filter({f \in FieldNames : is_allowed(f, allowlist)},
                    ModelDefs[m].fields)

\* classbased_selector without its assert
classbased_selector_unguarded(allowlist) == ""

\* classbased_selector itself: the assert on the allowlist; the exception it
\* leaves with, or "" when it returns the closure
classbased_selector(allowlist) ==
    IF allowlist = <<>> THEN "AssertionError" ELSE ""

\* a selector is the module it comes from and the allowlist it closes over
Selector(module, allowlist) == [module |-> module, allowlist |-> allowlist]

apply_selector(sel, m) ==
    IF sel.module = "traverse"
    THEN traverse_field_selector(sel.allowlist, m)
    ELSE resolution_field_selector(sel.allowlist, m)

\* traverse.markup_field_selector
markup_field_selector == Selector("traverse", <<"MarkupField">>)

\* the default of map_resolver's field_selector parameter
map_resolver_default_selector == Selector("resolution", <<"MarkupField">>)

-----------------------------------------------------------------------------
txt_vars == <<t_fn, t_raw, t_subject, t_pc, t_out, t_again>>

ord_vars == <<o_fn, o_fields, o_key, o_fragment, o_pc, o_out, o_again>>

cmp_vars == <<c_update, c_file0, c_file, c_data, c_pc, c_called, c_errors>>

acl_vars == <<a_allow, a_deny, a_model, a_pc, a_err, a_admits>>

(* Values parked while another part of the program runs *)

TxtIdle ==
    /\ t_fn = "" /\ t_raw = <<>> /\ t_subject = 0 /\ t_pc = "idle"
    /\ t_out = <<>> /\ t_again = <<>>

OrdIdle ==
    /\ o_fn = "" /\ o_fields = <<>> /\ o_key = "" /\ o_fragment = <<>>
    /\ o_pc = "idle" /\ o_out = <<>> /\ o_again = <<>>

CmpIdle ==
    /\ c_update = FALSE /\ c_file0 = "" /\ c_file = "" /\ c_data = ""
    /\ c_pc = "idle" /\ c_called = FALSE /\ c_errors = <<>>

AclIdle ==
    /\ a_allow = {} /\ a_deny = {} /\ a_model = "Doc"
    /\ a_pc = "idle" /\ a_err = "" /\ a_admits = FALSE

SelIdle ==
    /\ sel_module = "traverse" /\ sel_allowlist = <<>> /\ sel_model = "Doc"
    /\ sel_pc = "idle" /\ sel_err = "" /\ sel_result = <<>>

ResIdle ==
    /\ apps = <<>> /\ db = <<>> /\ db0 = <<>> /\ resolver = "same"
    /\ field_selector = markup_field_selector
    /\ screen_arg = [given |-> FALSE, allow |-> {}, deny |-> {}]
    /\ pc = "idle" /\ level = "site"
    /\ ai = 0 /\ mi = 0 /\ ii = 0 /\ fi = 0
    /\ screen = [allow |-> {}, deny |-> {}]
    /\ field_allowlist = <<>> /\ insts = <<>>
    /\ node = [m |-> "", idx |-> 0, pk |-> 0, f |-> "", v |-> ""]
    /\ log = <<>>

CreIdle ==
    /\ additive = FALSE /\ tbl0 = <<>>
    /\ tbl = <<>> /\ next_pk = 1 /\ raws = <<>> /\ cpc = "idle" /\ ci = 0
    /\ by_pk = <<>> /\ fin = 0 /\ snapshot = <<>> /\ cerr = "" /\ errlog = <<>>

-----------------------------------------------------------------------------
(* Specification of field selection *)

Allowlists == SeqsUpTo(Types, MaxAllow)

InitSelect ==
    /\ sel_module \in {"traverse", "resolution"}
    /\ sel_allowlist \in Allowlists
    /\ sel_model \in ModelNames
    /\ sel_pc = "init" /\ sel_err = "" /\ sel_result = <<>>
    /\ ResIdle /\ CreIdle /\ TxtIdle
    /\ OrdIdle /\ CmpIdle /\ AclIdle

\* classbased_selector(allowlist) returns the closure
SelectorBuilt ==
    /\ sel_pc = "init"
    /\ classbased_selector(sel_allowlist) = ""
    /\ sel_pc' = "built"
    /\ UNCHANGED <<sel_module, sel_allowlist, sel_model, sel_err, sel_result>>
    /\ UNCHANGED res_vars /\ UNCHANGED cre_vars /\ UNCHANGED txt_vars
    /\ UNCHANGED ord_vars /\ UNCHANGED cmp_vars /\ UNCHANGED acl_vars

\* classbased_selector(allowlist) raises
SelectorRaises ==
    /\ sel_pc = "init"
    /\ classbased_selector(sel_allowlist) # ""
    /\ sel_pc' = "raised"
    /\ sel_err' = classbased_selector(sel_allowlist)
    /\ UNCHANGED <<sel_module, sel_allowlist, sel_model, sel_result>>
    /\ UNCHANGED res_vars /\ UNCHANGED cre_vars /\ UNCHANGED txt_vars
    /\ UNCHANGED ord_vars /\ UNCHANGED cmp_vars /\ UNCHANGED acl_vars

\* the closure is called with a model
SelectorApplied ==
    /\ sel_pc = "built"
    /\ sel_pc' = "applied"
    /\ sel_result' = apply_selector(Selector(sel_module, sel_allowlist), sel_model)
    /\ UNCHANGED <<sel_module, sel_allowlist, sel_model, sel_err>>
    /\ UNCHANGED res_vars /\ UNCHANGED cre_vars /\ UNCHANGED txt_vars
    /\ UNCHANGED ord_vars /\ UNCHANGED cmp_vars /\ UNCHANGED acl_vars

NextSelect == SelectorBuilt \/ SelectorRaises \/ SelectorApplied

SpecSelect == InitSelect /\ [][NextSelect]_vars

\* the subclass relation of the classes above, pair by pair
SubclassPairs ==
    {<<t, t>> : t \in Types} \cup
    {<<"CharField", "Field">>, <<"TextField", "Field">>,
     <<"MarkupField", "TextField">>, <<"MarkupField", "Field">>}

\* positions in the model's own field order whose field is an instance of a
\* class in the allowlist
MatchingPositions(m, allowlist) ==
    {i \in 1..Len(ModelDefs[m].fields) :
        \E t \in Range(allowlist) :
            <<FieldDefs[ModelDefs[m].fields[i]].type, t>> \in SubclassPairs}

\* C7: a selector built by classbased_selector from a non-empty allowlist
\* returns, for a model that declares fields_with_markup, exactly that list,
\* whatever the allowlist and the classes of the model's fields, in the
\* traversal module and in the resolution module (map_resolver's default).
C7_ExplicitListReturned ==
    (sel_pc = "applied" /\ ModelDefs[sel_model].fields_with_markup.has)
        => sel_result = ModelDefs[sel_model].fields_with_markup.val

\* C8: for a model without fields_with_markup the selector returns exactly
\* the model's fields that are instances of a class in the allowlist, in the
\* model's own field order, and the empty tuple when there is none.
C8_FallbackFiltersByType ==
    (sel_pc = "applied" /\ ~ModelDefs[sel_model].fields_with_markup.has)
        => LET pos == MatchingPositions(sel_model, sel_allowlist)
           IN  /\ Len(sel_result) = Cardinality(pos)
               /\ \A k \in 1..Len(sel_result) :
                     \E i \in pos :
                        /\ sel_result[k] = ModelDefs[sel_model].fields[i]
                        /\ Cardinality({j \in pos : j < i}) = k - 1
               /\ (pos = {} => sel_result = <<>>)

\* C8 witness: a MarkupField is selected through its base class TextField,
\* in field order
C8_Witness ==
    /\ sel_pc = "applied" /\ sel_model = "Doc"
    /\ sel_allowlist = <<"TextField">>
    /\ sel_result = <<"summary", "body">>

\* C9 as stated: construction fails with a ConfigurationError if and only
\* if the allowlist is empty.
C9_ConfigurationError ==
    sel_pc # "init"
        => ((sel_pc = "raised" /\ sel_err = "ConfigurationError")
                <=> sel_allowlist = <<>>)

\* C9 amended: construction fails if and only if the allowlist is empty,
\* with an AssertionError, and the closure is then never built nor applied.
C9_AssertionError ==
    /\ sel_pc # "init" => (sel_pc = "raised" <=> sel_allowlist = <<>>)
    /\ sel_pc = "raised" => (sel_err = "AssertionError" /\ sel_result = <<>>)
    /\ sel_pc # "raised" => sel_err = ""

\* C9 witness: an empty allowlist has made construction raise
C9_Witness ==
    sel_pc = "raised" /\ sel_allowlist = <<>> /\ sel_err = "AssertionError"

-----------------------------------------------------------------------------
(* Model selection: traverse.py *)

RECURSIVE Flatten(_)
Flatten(ss) == IF ss = <<>> THEN <<>> ELSE Head(ss) \o Flatten(Tail(ss))

\* the models _apps_from_site() holds, app after app
SiteModels(site_apps) == Flatten(site_apps)

\* a Screen made by screen_from_acl is the pair of sets it closes over
Acl(allow, deny) == [allow |-> allow, deny |-> deny]

\* the predicate that screen_from_acl(allow, deny) returns, applied to m
\* (identifier is the identity)
screen_from_acl(acl, m) ==
    IF acl.deny # {} THEN m \notin acl.deny
    ELSE IF acl.allow # {} THEN m \in acl.allow
    ELSE TRUE

\* screen_from_acl without its assert
screen_from_acl_unasserted(allow, deny) == ""

\* the first line of screen_from_acl: the exception the call leaves with, or
\* "" when it goes on to return a screen
screen_from_acl_raises(allow, deny) ==
    IF allow # {} /\ deny # {} THEN "AssertionError" ELSE ""

\* top_levels() inside screen_from_field_selector: the models for which the
\* selector returns a non-empty tuple
top_levels(sel, site_apps) ==
    {m \in Range(SiteModels(site_apps)) : apply_selector(sel, m) # <<>>}

screen_from_field_selector(sel, site_apps) ==
    Acl(top_levels(sel, site_apps), {})

\* the first two lines of app(): the screen argument, or, when it is None,
\* screen_from_field_selector() called without argument
app_screen(arg, site_apps) ==
    IF ~arg.given
    THEN screen_from_field_selector(markup_field_selector, site_apps)
    ELSE Acl(arg.allow, arg.deny)

-----------------------------------------------------------------------------
(* Resolvers and storage *)

\* resolvers handed to map_resolver: the identity, one that turns raw text
\* into HTML, one that always returns None, one that looks at its subject
Resolvers == {"same", "cook", "none", "subject"}

Resolve(r, inst, v) ==
    CASE r = "same"    -> v
      [] r = "cook"    -> IF v = "raw" THEN "html" ELSE v
      [] r = "none"    -> None
      [] r = "subject" -> IF inst.pk = 1 THEN None ELSE "html"

Fills == {"raw", "null", "mixed"}

\* what a field of the k-th stored row holds when the pass starts; only a
\* nullable field holds None, and a unique field differs from row to row
Fill(fill, k, f) ==
    IF FieldDefs[f].unique THEN "t" \o ToString(k)
    ELSE CASE fill = "raw"   -> "raw"
           [] fill = "null"  -> IF FieldDefs[f].null THEN None ELSE ""
           [] fill = "mixed" -> IF k = 1 THEN "html"
                                ELSE IF FieldDefs[f].null THEN None ELSE "raw"

InitialRows(m, n, fill) ==
    [k \in 1..n |->
        [pk |-> k,
         vals |-> [f \in Range(ModelDefs[m].fields) |-> Fill(fill, k, f)]]]

\* whether storage accepts the instance: no other row holds the value it
\* has in a unique field
save_accepted(rows, inst) ==
    \A f \in DOMAIN inst.vals :
        FieldDefs[f].unique =>
            \A r \in Range(rows) : r.pk # inst.pk => r.vals[f] # inst.vals[f]

\* a save that writes the set field into every row of the table, as an
\* update without a filter on the primary key does
save_without_pk_filter(rows, inst) ==
    [i \in DOMAIN rows |->
        IF rows[i].pk = inst.pk THEN inst
        ELSE [rows[i] EXCEPT !.vals = inst.vals]]

\* Model.save() of an instance loaded from storage: its row is rewritten
\* with every field of the instance
save(rows, inst) ==
    [i \in DOMAIN rows |-> IF rows[i].pk = inst.pk THEN inst ELSE rows[i]]

Ev(ev, m, pk, f, v, ok) ==
    [ev |-> ev, m |-> m, pk |-> pk, f |-> f, v |-> v, ok |-> ok]

-----------------------------------------------------------------------------
(* Specification of traversal and resolution *)

Sites ==
    {<< <<"Doc">>, <<"Small", "Plain">> >>,
     << <<"Plain">> >>,
     << <<"Promo", "Memo">> >>}

Selectors ==
    {map_resolver_default_selector, markup_field_selector,
     Selector("traverse", <<"TextField">>)}

NoScreen == [given |-> FALSE, allow |-> {}, deny |-> {}]

Screens ==
    {NoScreen,
     [given |-> TRUE, allow |-> {"Doc", "Plain", "Memo"}, deny |-> {}],
     [given |-> TRUE, allow |-> {}, deny |-> {"Doc", "Promo"}]}

InitResolve ==
    /\ apps \in Sites
    /\ \E n \in 0..MaxInst, fill \in Fills :
          db = [m \in ModelNames |->
                   IF m \in Range(SiteModels(apps))
                   THEN InitialRows(m, n, fill) ELSE <<>>]
    /\ db0 = db
    /\ resolver \in Resolvers
    /\ field_selector \in Selectors
    /\ screen_arg \in Screens
    /\ pc = "start" /\ level = "site"
    /\ ai = 0 /\ mi = 0 /\ ii = 0 /\ fi = 0
    /\ screen = Acl({}, {})
    /\ field_allowlist = <<>> /\ insts = <<>>
    /\ node = [m |-> "", idx |-> 0, pk |-> 0, f |-> "", v |-> ""]
    /\ log = <<>>
    /\ SelIdle /\ CreIdle /\ TxtIdle
    /\ OrdIdle /\ CmpIdle /\ AclIdle

\* what no step of a pass changes
ResFrame ==
    /\ UNCHANGED <<apps, db0, resolver, field_selector, screen_arg>>
    /\ UNCHANGED sel_vars /\ UNCHANGED cre_vars /\ UNCHANGED txt_vars
    /\ UNCHANGED ord_vars /\ UNCHANGED cmp_vars /\ UNCHANGED acl_vars

\* map_resolver with a list() around its preliminary traversal: every
\* admitted model's rows are loaded before it returns
map_resolver_materializes ==
    /\ pc = "start"
    /\ pc' = "lazy"
    /\ log' = [i \in 1..Len(SiteModels(apps)) |->
                  Ev("load", SiteModels(apps)[i], 0, "", "", TRUE)]
    /\ UNCHANGED <<db, level, ai, mi, ii, fi, screen, field_allowlist, insts, node>>
    /\ ResFrame

\* map_resolver(resolver, field_selector, **kwargs): builds map(...) over
\* site(...) and returns it; neither has run a step yet
map_resolver ==
    /\ pc = "start"
    /\ pc' = "lazy"
    /\ UNCHANGED <<db, level, ai, mi, ii, fi, screen, field_allowlist, insts,
                   node, log>>
    /\ ResFrame

\* the caller starts to exhaust the returned iterator: list(map_resolver(...))
list_consume ==
    /\ pc = "lazy"
    /\ pc' = "gen"
    /\ UNCHANGED <<db, level, ai, mi, ii, fi, screen, field_allowlist, insts,
                   node, log>>
    /\ ResFrame

\* site(): the for loop takes the next app and calls app()
site_next_app ==
    /\ pc = "gen" /\ level = "site" /\ ai < Len(apps)
    /\ ai' = ai + 1
    /\ level' = "app_enter"
    /\ UNCHANGED <<db, pc, mi, ii, fi, screen, field_allowlist, insts, node, log>>
    /\ ResFrame

\* site(): the for loop is exhausted, so is map(), and list() returns
site_exhausted ==
    /\ pc = "gen" /\ level = "site" /\ ai = Len(apps)
    /\ pc' = "done"
    /\ UNCHANGED <<db, level, ai, mi, ii, fi, screen, field_allowlist, insts,
                   node, log>>
    /\ ResFrame

\* app(): the screen is settled before the loop over the app's models
app_enter ==
    /\ pc = "gen" /\ level = "app_enter"
    /\ screen' = app_screen(screen_arg, apps)
    /\ mi' = 0
    /\ level' = "app"
    /\ UNCHANGED <<db, pc, ai, ii, fi, field_allowlist, insts, node, log>>
    /\ ResFrame

\* app(): filter(screen, ...) lets the next model through; model() is called
app_model_admitted ==
    /\ pc = "gen" /\ level = "app" /\ mi < Len(apps[ai])
    /\ screen_from_acl(screen, apps[ai][mi + 1])
    /\ mi' = mi + 1
    /\ level' = "model_enter"
    /\ UNCHANGED <<db, pc, ai, ii, fi, screen, field_allowlist, insts, node, log>>
    /\ ResFrame

\* app() calling model() for a model the screen rejects
app_model_not_screened ==
    /\ pc = "gen" /\ level = "app" /\ mi < Len(apps[ai])
    /\ ~screen_from_acl(screen, apps[ai][mi + 1])
    /\ mi' = mi + 1
    /\ level' = "model_enter"
    /\ UNCHANGED <<db, pc, ai, ii, fi, screen, field_allowlist, insts, node, log>>
    /\ ResFrame

\* app(): filter(screen, ...) drops the next model
app_model_screened_out ==
    /\ pc = "gen" /\ level = "app" /\ mi < Len(apps[ai])
    /\ ~screen_from_acl(screen, apps[ai][mi + 1])
    /\ mi' = mi + 1
    /\ UNCHANGED <<db, pc, level, ai, ii, fi, screen, field_allowlist, insts,
                   node, log>>
    /\ ResFrame

\* app(): no model is left; back in site()
app_exhausted ==
    /\ pc = "gen" /\ level = "app" /\ mi = Len(apps[ai])
    /\ level' = "site"
    /\ UNCHANGED <<db, pc, ai, mi, ii, fi, screen, field_allowlist, insts, node, log>>
    /\ ResFrame

\* model(): the allowlist is computed, as a frozenset whose iteration order
\* is any order, and objects.all() loads the model's rows
model_enter ==
    /\ pc = "gen" /\ level = "model_enter"
    /\ LET m == apps[ai][mi]
       IN  /\ field_allowlist' \in
                 Orderings(Range(apply_selector(field_selector, m)))
           /\ insts' = db[m]
           /\ log' = log \o <<Ev("select", m, 0, "", "", TRUE),
                              Ev("load", m, 0, "", "", TRUE)>>
    /\ ii' = 0
    /\ level' = "model"
    /\ UNCHANGED <<db, pc, ai, mi, fi, screen, node>>
    /\ ResFrame

\* model() applying the field selector anew for every instance
model_next_instance_selects_again ==
    /\ pc = "gen" /\ level = "model" /\ ii < Len(insts)
    /\ ii' = ii + 1
    /\ fi' = 0
    /\ level' = "instance"
    /\ field_allowlist' \in
          Orderings(Range(apply_selector(field_selector, apps[ai][mi])))
    /\ log' = Append(log, Ev("select", apps[ai][mi], 0, "", "", TRUE))
    /\ UNCHANGED <<db, pc, ai, mi, screen, insts, node>>
    /\ ResFrame

\* model(): the for loop takes the next instance and calls instance()
model_next_instance ==
    /\ pc = "gen" /\ level = "model" /\ ii < Len(insts)
    /\ ii' = ii + 1
    /\ fi' = 0
    /\ level' = "instance"
    /\ UNCHANGED <<db, pc, ai, mi, screen, field_allowlist, insts, node, log>>
    /\ ResFrame

\* model(): no instance is left; back in app()
model_exhausted ==
    /\ pc = "gen" /\ level = "model" /\ ii = Len(insts)
    /\ level' = "app"
    /\ UNCHANGED <<db, pc, ai, mi, ii, fi, screen, field_allowlist, insts, node, log>>
    /\ ResFrame

\* instance(): the next field's node is yielded; map() hands it to visit_field
instance_yield ==
    /\ pc = "gen" /\ level = "instance" /\ fi < Len(field_allowlist)
    /\ fi' = fi + 1
    /\ LET f == field_allowlist[fi + 1]
           n == [m |-> apps[ai][mi], idx |-> ii, pk |-> insts[ii].pk,
                 f |-> f, v |-> insts[ii].vals[f]]
       IN  /\ node' = n
           /\ log' = Append(log, Ev("yield", n.m, n.pk, n.f, n.v, TRUE))
    /\ pc' = "visit"
    /\ UNCHANGED <<db, level, ai, mi, ii, screen, field_allowlist, insts>>
    /\ ResFrame

\* instance(): no field is left; back in model()
instance_exhausted ==
    /\ pc = "gen" /\ level = "instance" /\ fi = Len(field_allowlist)
    /\ level' = "model"
    /\ UNCHANGED <<db, pc, ai, mi, ii, fi, screen, field_allowlist, insts, node, log>>
    /\ ResFrame

\* the row pk of model m as stored when the pass started
Row0(m, pk) == CHOOSE r \in Range(db0[m]) : r.pk = pk

\* visit_field's value with the null flag of the field left out of account
new_contents_always_blank(r, inst, f, prior) ==
    LET resolved == IF prior # None THEN Resolve(r, inst, prior) ELSE None
    IN  IF resolved = None THEN "" ELSE resolved

\* visit_field: the value it assigns
new_contents(r, inst, f, prior) ==
    LET resolved == IF prior # None THEN Resolve(r, inst, prior) ELSE None
    IN  IF resolved = None /\ ~FieldDefs[f].null THEN "" ELSE resolved

\* the events of a visit_field that hands every value to the resolver, None
\* included
VisitEvents_calls_for_none(n, new, ok) ==
    <<Ev("call", n.m, n.pk, n.f, n.v, TRUE),
      Ev("set", n.m, n.pk, n.f, new, TRUE),
      Ev("save", n.m, n.pk, n.f, new, ok)>>

\* the events of one visit_field call whose save has the outcome ok
VisitEvents(n, new, ok) ==
    (IF n.v # None THEN <<Ev("call", n.m, n.pk, n.f, n.v, TRUE)>> ELSE <<>>)
    \o <<Ev("set", n.m, n.pk, n.f, new, TRUE),
         Ev("save", n.m, n.pk, n.f, new, ok)>>

\* visit_field that leaves an instance alone when the value did not change
visit_field_dirty_check ==
    /\ pc = "visit"
    /\ LET inst == insts[node.idx]
           new == new_contents(resolver, inst, node.f, node.v)
           changed == [inst EXCEPT !.vals[node.f] = new]
       IN  IF new = node.v
           THEN UNCHANGED <<insts, db, log>>
           ELSE /\ insts' = [insts EXCEPT ![node.idx] = changed]
                /\ db' = [db EXCEPT ![node.m] = save(db[node.m], changed)]
                /\ log' = log \o VisitEvents(node, new, TRUE)
    /\ pc' = "gen"
    /\ UNCHANGED <<level, ai, mi, ii, fi, screen, field_allowlist, node>>
    /\ ResFrame

\* visit_field working on a copy of the instance as it was loaded: what it
\* sets does not reach the instance that later nodes are read from
visit_field_on_loaded_copy ==
    /\ pc = "visit"
    /\ LET inst == Row0(node.m, node.pk)
           new == new_contents(resolver, inst, node.f, node.v)
           changed == [inst EXCEPT !.vals[node.f] = new]
       IN  /\ save_accepted(db[node.m], changed)
           /\ db' = [db EXCEPT ![node.m] = save(db[node.m], changed)]
           /\ log' = log \o VisitEvents(node, new, TRUE)
    /\ pc' = "gen"
    /\ UNCHANGED <<insts, level, ai, mi, ii, fi, screen, field_allowlist, node>>
    /\ ResFrame

\* visit_field(resolver, node): resolver, setattr, save; map() asks site()
\* for the next node afterwards
visit_field ==
    /\ pc = "visit"
    /\ LET inst == insts[node.idx]
           new == new_contents(resolver, inst, node.f, node.v)
           changed == [inst EXCEPT !.vals[node.f] = new]
       IN  /\ save_accepted(db[node.m], changed)
           /\ insts' = [insts EXCEPT ![node.idx] = changed]
           /\ db' = [db EXCEPT ![node.m] = save(db[node.m], changed)]
           /\ log' = log \o VisitEvents(node, new, TRUE)
    /\ pc' = "gen"
    /\ UNCHANGED <<level, ai, mi, ii, fi, screen, field_allowlist, node>>
    /\ ResFrame

\* visit_field with the exception of save() caught and passed over
visit_field_save_fails_swallowed ==
    /\ pc = "visit"
    /\ LET inst == insts[node.idx]
           new == new_contents(resolver, inst, node.f, node.v)
           changed == [inst EXCEPT !.vals[node.f] = new]
       IN  /\ insts' = [insts EXCEPT ![node.idx] = changed]
           /\ log' = log \o VisitEvents(node, new, FALSE)
    /\ pc' = "gen"
    /\ UNCHANGED <<db, level, ai, mi, ii, fi, screen, field_allowlist, node>>
    /\ ResFrame

\* visit_field when instance.save() raises: the attribute is set, storage is
\* not written, and the exception leaves map() and list()
visit_field_save_fails ==
    /\ pc = "visit"
    /\ LET inst == insts[node.idx]
           new == new_contents(resolver, inst, node.f, node.v)
           changed == [inst EXCEPT !.vals[node.f] = new]
       IN  /\ insts' = [insts EXCEPT ![node.idx] = changed]
           /\ log' = log \o VisitEvents(node, new, FALSE)
    /\ pc' = "raised"
    /\ UNCHANGED <<db, level, ai, mi, ii, fi, screen, field_allowlist, node>>
    /\ ResFrame

NextResolve ==
    \/ map_resolver \/ list_consume
    \/ site_next_app \/ site_exhausted
    \/ app_enter \/ app_model_admitted \/ app_model_screened_out \/ app_exhausted
    \/ model_enter \/ model_next_instance \/ model_exhausted
    \/ instance_yield \/ instance_exhausted
    \/ visit_field \/ visit_field_save_fails

SpecResolve == InitResolve /\ [][NextResolve]_vars

\* positions of the events of one kind in the log
EvIdx(ev) == {i \in DOMAIN log : log[i].ev = ev}

EvNode(e) == <<e.m, e.pk, e.f>>

\* what storage holds for field f of the row pk of model m
DbVal(m, pk, f) ==
    LET r == CHOOSE r \in Range(db[m]) : r.pk = pk IN r.vals[f]

\* whether the pass descends into model m: the screen given, or else the
\* default one
Admitted(m) == screen_from_acl(app_screen(screen_arg, apps), m)

\* the nodes of the traversal: stored instance by allowlisted field, for the
\* models that pass the screen
ExpectedNodes ==
    UNION {{<<m, db0[m][k].pk, f>> :
                k \in DOMAIN db0[m],
                f \in Range(apply_selector(field_selector, m))} :
           m \in {x \in Range(SiteModels(apps)) : Admitted(x)}}

\* stored instances times allowlist size, summed over the screened models
RECURSIVE NodeCount(_)
NodeCount(ms) ==
    IF ms = <<>> THEN 0
    ELSE (IF Admitted(Head(ms))
          THEN Len(db0[Head(ms)])
                 * Cardinality(Range(apply_selector(field_selector, Head(ms))))
          ELSE 0)
         + NodeCount(Tail(ms))

\* every node has had its field set and its instance saved
AllNodesVisited ==
    \A n \in ExpectedNodes :
        \E i \in EvIdx("save") :
            /\ EvNode(log[i]) = n /\ log[i].ok
            /\ i > 1 /\ log[i - 1].ev = "set" /\ EvNode(log[i - 1]) = n

\* C1: visit_field stores None on a nullable field and the empty string on
\* a non-nullable one when the prior value is None or the resolver returns
\* None, and stores the resolver's return value in every other case.
C1_NullPolicy ==
    (log # <<>> /\ log[Len(log)].ev = "save") =>
        LET prior  == node.v
            inst   == insts[node.idx]
            stored == inst.vals[node.f]
            ret    == IF prior = None THEN None
                      ELSE Resolve(resolver, inst, prior)
        IN  /\ (prior = None \/ ret = None)
                  => stored = (IF FieldDefs[node.f].null THEN None ELSE "")
            /\ ~(prior = None \/ ret = None) => stored = ret
            /\ log[Len(log)].ok => DbVal(node.m, node.pk, node.f) = stored

\* C1 witness: the resolver returned None for a nullable field that held
\* text, and None got stored
C1_Witness ==
    /\ log # <<>> /\ log[Len(log)].ev = "save" /\ log[Len(log)].ok
    /\ FieldDefs[node.f].null /\ node.v # None
    /\ DbVal(node.m, node.pk, node.f) = None

\* C2 as stated: when map_resolver has returned, every node has been
\* visited, without the caller iterating over the returned value.
C2_VisitedOnReturn == pc = "lazy" => AllNodesVisited

\* C2 amended: map_resolver returns a lazy iterator; when it returns
\* nothing has been read, set or saved, and every node has been visited once
\* the caller has exhausted the returned iterator.
C2_VisitedOnceConsumed ==
    /\ pc \in {"start", "lazy"} => (log = <<>> /\ db = db0)
    /\ pc = "done" => AllNodesVisited

\* C2 witness: a consumed pass over several nodes
C2_Witness ==
    pc = "done" /\ Cardinality(ExpectedNodes) > 1 /\ AllNodesVisited

\* C3: every visited node gets exactly one assignment followed by exactly
\* one save of its instance, also when the value does not change, before
\* the traversal produces the next node; saves and visited nodes are equal
\* in number.
C3_OneSetOneSavePerNode ==
    LET pending == IF pc = "visit" THEN 1 ELSE 0
    IN  /\ Cardinality(EvIdx("set")) = Cardinality(EvIdx("yield")) - pending
        /\ Cardinality(EvIdx("save")) = Cardinality(EvIdx("set"))
        /\ \A i \in EvIdx("yield") :
              \/ i = Len(log) /\ pc = "visit"
              \/ \E j \in EvIdx("set") :
                    /\ j > i /\ j + 1 \in EvIdx("save")
                    /\ EvNode(log[j]) = EvNode(log[i])
                    /\ EvNode(log[j + 1]) = EvNode(log[i])
                    /\ \A k \in (i + 1)..(j - 1) : log[k].ev = "call"

\* C3 witness: a consumed pass in which no value changed and every node
\* was saved all the same
C3_Witness ==
    /\ pc = "done" /\ db = db0
    /\ Cardinality(EvIdx("save")) >= 2
    /\ Cardinality(EvIdx("save")) = Cardinality(ExpectedNodes)

\* C4: when saving the k-th node's instance fails, the failure reaches the
\* caller, nothing follows it (no later node, no retry), the writes of the
\* nodes before it stay stored and the failed write is not stored.
C4_SaveFailureAborts ==
    /\ \A i \in EvIdx("save") : ~log[i].ok => (i = Len(log) /\ pc = "raised")
    /\ pc = "raised" =>
          /\ log # <<>> /\ log[Len(log)].ev = "save" /\ ~log[Len(log)].ok
          /\ \A i \in EvIdx("save") :
                log[i].ok => DbVal(log[i].m, log[i].pk, log[i].f) = log[i].v
          /\ DbVal(node.m, node.pk, node.f) = node.v

\* C4 witness: the pass stopped on a failed save after earlier writes that
\* changed storage, with nodes left unvisited
C4_Witness ==
    /\ pc = "raised" /\ db # db0
    /\ Cardinality(EvIdx("save")) >= 2
    /\ Cardinality(EvIdx("yield")) < Cardinality(ExpectedNodes)

\* C5: a traversal yields exactly one node (instance, field, current value)
\* for every stored instance of a screened model and every field of that
\* model's allowlist, no other node, and ends after that many nodes.
C5_ExactlyTheExpectedNodes ==
    /\ pc = "visit" => node.v = DbVal(node.m, node.pk, node.f)
    /\ \A i \in EvIdx("yield") : EvNode(log[i]) \in ExpectedNodes
    /\ \A i, j \in EvIdx("yield") : EvNode(log[i]) = EvNode(log[j]) => i = j
    /\ pc = "done" =>
          /\ \A n \in ExpectedNodes :
                \E i \in EvIdx("yield") : EvNode(log[i]) = n
          /\ Cardinality(EvIdx("yield")) = NodeCount(SiteModels(apps))

\* C5 witness: a finished traversal of four nodes or more that left out a
\* model with stored rows
C5_Witness ==
    /\ pc = "done" /\ Cardinality(EvIdx("yield")) >= 4
    /\ \E m \in Range(SiteModels(apps)) : ~Admitted(m) /\ db0[m] # <<>>

\* C6: with the default screen a traversal descends into a model and loads
\* its instances if and only if the field selector of that traversal
\* returns at least one field for the model.
C6_DefaultScreenFollowsSelector ==
    (pc = "done" /\ ~screen_arg.given) =>
        \A m \in Range(SiteModels(apps)) :
            (\E i \in EvIdx("load") : log[i].m = m)
                <=> apply_selector(field_selector, m) # <<>>

-----------------------------------------------------------------------------
(* Slugs: yamldoc/util/misc.py.  A string is a tuple of characters; "e'"   *)
(* stands for a letter outside ASCII that unidecode turns into e.          *)

Letters == {"a", "b", "e"}

Lower(c) == IF c = "A" THEN "a" ELSE c

\* django.utils.html.strip_tags: text between < and the next > goes, the
\* brackets included; a < that is never closed stays
RECURSIVE strip_tags(_)
strip_tags(s) ==
    IF s = <<>> THEN <<>>
    ELSE IF Head(s) = "<" /\ \E i \in 2..Len(s) : s[i] = ">"
         THEN LET close == CHOOSE i \in 2..Len(s) :
                              s[i] = ">" /\ \A j \in 2..(i - 1) : s[j] # ">"
              IN  strip_tags(SubSeq(s, close + 1, Len(s)))
         ELSE <<Head(s)>> \o strip_tags(Tail(s))

\* unidecode.unidecode: transliteration to ASCII
RECURSIVE unidecode(_)
unidecode(s) ==
    IF s = <<>> THEN <<>>
    ELSE <<(IF Head(s) = "e'" THEN "e" ELSE Head(s))>> \o unidecode(Tail(s))

\* re.sub(r'[^\w\s-]', '', value.lower())
RECURSIVE DropNonWord(_)
DropNonWord(s) ==
    IF s = <<>> THEN <<>>
    ELSE LET c == Lower(Head(s))
         IN  (IF c \in Letters \cup {" ", "-", "_"} THEN <<c>> ELSE <<>>)
             \o DropNonWord(Tail(s))

\* re.sub(r'[-\s]+', '-', value)
RECURSIVE Hyphenate(_)
Hyphenate(s) ==
    IF s = <<>> THEN <<>>
    ELSE IF Head(s) \in {" ", "-"}
         THEN IF Len(s) > 1 /\ s[2] \in {" ", "-"}
              THEN Hyphenate(Tail(s))
              ELSE <<"-">> \o Hyphenate(Tail(s))
         ELSE <<Head(s)>> \o Hyphenate(Tail(s))

\* str.strip('-_')
RECURSIVE StripEnds(_)
StripEnds(s) ==
    IF s = <<>> THEN <<>>
    ELSE IF Head(s) \in {"-", "_"} THEN StripEnds(Tail(s))
    ELSE IF s[Len(s)] \in {"-", "_"} THEN StripEnds(SubSeq(s, 1, Len(s) - 1))
    ELSE s

\* django.template.defaultfilters.slugify
default_slugify(s) == StripEnds(Hyphenate(DropNonWord(s)))

\* slugify(string) without its two tests for an empty result
slugify_without_checks(string) ==
    [ok |-> TRUE, slug |-> default_slugify(unidecode(strip_tags(string)))]

\* slugify(string): the slug, or ValueError when nothing is left after the
\* tags or after slugification
slugify(string) ==
    LET clean == strip_tags(string)
        slug  == default_slugify(unidecode(clean))
    IN  IF clean = <<>> THEN [ok |-> FALSE, slug |-> <<>>]
        ELSE IF slug = <<>> THEN [ok |-> FALSE, slug |-> <<>>]
        ELSE [ok |-> TRUE, slug |-> slug]

-----------------------------------------------------------------------------
(* Refinement and mass instantiation: yamldoc/management/misc.py and       *)
(* yamldoc/models.py                                                       *)

\* titles of fragments; the empty tuple is create's default title ''
Titles ==
    {<<>>, <<"a">>, <<"A">>, <<"e'">>, <<"<", "b", ">">>, <<",">>}

\* parent_object of fragments; the empty tuple is None or '', which
\* create and _finishing treat alike
Labels ==
    {<<>>, <<"A">>, <<"<", "b", ">", "e", ",">>, <<"a", " ", "b">>, <<",">>}

Fragments == [title : Titles, parent_object : Labels]

\* a stored row of cls; parent 0 is a NULL parent_object
Row(pk, title, slug) ==
    [pk |-> pk, title |-> title, slug |-> slug, parent |-> 0]

\* what storage may hold before create_en_masse is called
Stored ==
    {<<>>,
     <<Row(1, <<"a">>, <<"a">>)>>,
     <<Row(1, <<"e">>, <<"e">>)>>}

\* cls.objects.get(slug=slugify(sluggable)) with the label compared to titles
parent_candidates_by_title(rows, sluggable) ==
    {r \in Range(rows) : r.title = sluggable}

\* the rows that cls.objects.get(slug=slugify(sluggable)) chooses from
parent_candidates(rows, sluggable) ==
    {r \in Range(rows) : r.slug = slugify(sluggable).slug}

\* the refinement command is called; one parsed fragment per file found
InitCreate ==
    /\ tbl \in Stored
    /\ tbl0 = tbl
    /\ additive \in BOOLEAN
    /\ next_pk = Len(tbl) + 1
    /\ raws \in UNION {[1..k -> Fragments] : k \in 0..MaxBatch}
    /\ cpc = "handle" /\ ci = 0 /\ by_pk = <<>> /\ fin = 0
    /\ snapshot = <<>> /\ cerr = "" /\ errlog = <<>>
    /\ SelIdle /\ ResIdle /\ TxtIdle
    /\ OrdIdle /\ CmpIdle /\ AclIdle

CreFrame ==
    /\ UNCHANGED <<raws, additive, tbl0>>
    /\ UNCHANGED sel_vars /\ UNCHANGED res_vars /\ UNCHANGED txt_vars
    /\ UNCHANGED ord_vars /\ UNCHANGED cmp_vars /\ UNCHANGED acl_vars

\* _handle without --additive that goes to _create without clearing
handle_without_clear ==
    /\ cpc = "handle" /\ ~additive
    /\ cpc' = "create"
    /\ UNCHANGED <<tbl, next_pk, ci, by_pk, fin, snapshot, cerr, errlog>>
    /\ CreFrame

\* _handle without --additive: _clear_database deletes every row of the model
handle_clear_database ==
    /\ cpc = "handle" /\ ~additive
    /\ tbl' = <<>>
    /\ cpc' = "create"
    /\ UNCHANGED <<next_pk, ci, by_pk, fin, snapshot, cerr, errlog>>
    /\ CreFrame

\* _handle with --additive: storage is left as it is
handle_additive ==
    /\ cpc = "handle" /\ additive
    /\ cpc' = "create"
    /\ UNCHANGED <<tbl, next_pk, ci, by_pk, fin, snapshot, cerr, errlog>>
    /\ CreFrame

\* _create: no file was found and "assert files" fails
create_no_files ==
    /\ cpc = "create" /\ raws = <<>>
    /\ cpc' = "no_files"
    /\ cerr' = "AssertionError"
    /\ UNCHANGED <<tbl, next_pk, ci, by_pk, fin, snapshot, errlog>>
    /\ CreFrame

\* create_en_masse in a transaction that the command opened before the clear
create_en_masse_in_command_transaction ==
    /\ cpc = "create" /\ raws # <<>>
    /\ cpc' = "creating"
    /\ snapshot' = tbl0
    /\ ci' = 0 /\ by_pk' = <<>>
    /\ UNCHANGED <<tbl, next_pk, fin, cerr, errlog>>
    /\ CreFrame

\* create_en_masse is entered: transaction.atomic opens
create_en_masse ==
    /\ cpc = "create" /\ raws # <<>>
    /\ cpc' = "creating"
    /\ snapshot' = tbl
    /\ ci' = 0 /\ by_pk' = <<>>
    /\ UNCHANGED <<tbl, next_pk, fin, cerr, errlog>>
    /\ CreFrame

\* create that resolves parent_object itself when the parent is stored
create_stores_with_parent ==
    /\ cpc = "creating" /\ ci < Len(raws)
    /\ LET item == raws[ci + 1]
           found == IF item.parent_object # <<>> /\ slugify(item.parent_object).ok
                    THEN parent_candidates(tbl, item.parent_object)
                    ELSE {}
           new == Row(next_pk, item.title, slugify(item.title).slug)
       IN  /\ slugify(item.title).ok
           /\ \A r \in Range(tbl) : r.title # item.title
           /\ tbl' = Append(tbl,
                  IF found = {} THEN new
                  ELSE [new EXCEPT !.parent = (CHOOSE r \in found : TRUE).pk])
           /\ by_pk' = Append(by_pk, [pk |-> next_pk, raw |-> item])
    /\ next_pk' = next_pk + 1
    /\ ci' = ci + 1
    /\ UNCHANGED <<cpc, fin, snapshot, cerr, errlog>>
    /\ CreFrame

\* _iterate_over_raw_data and create: the next fragment becomes a row
\* without parent, and _instantiate_en_masse files it under its pk
create_stores ==
    /\ cpc = "creating" /\ ci < Len(raws)
    /\ LET item == raws[ci + 1]
       IN  /\ slugify(item.title).ok
           /\ \A r \in Range(tbl) : r.title # item.title
           /\ tbl' = Append(tbl, Row(next_pk, item.title, slugify(item.title).slug))
           /\ by_pk' = Append(by_pk, [pk |-> next_pk, raw |-> item])
    /\ next_pk' = next_pk + 1
    /\ ci' = ci + 1
    /\ UNCHANGED <<cpc, fin, snapshot, cerr, errlog>>
    /\ CreFrame

\* create raises, and the rows created so far are kept
create_raises_without_rollback ==
    /\ cpc = "creating" /\ ci < Len(raws)
    /\ LET item == raws[ci + 1]
       IN  \/ /\ ~slugify(item.title).ok
              /\ cerr' = "ValueError"
           \/ /\ slugify(item.title).ok
              /\ \E r \in Range(tbl) : r.title = item.title
              /\ cerr' = "IntegrityError"
    /\ cpc' = "raised"
    /\ UNCHANGED <<tbl, next_pk, ci, by_pk, fin, snapshot, errlog>>
    /\ CreFrame

\* create raises: slugify fails (ValueError) or the title, which is unique,
\* is stored already (IntegrityError); the atomic block rolls back
create_raises ==
    /\ cpc = "creating" /\ ci < Len(raws)
    /\ LET item == raws[ci + 1]
       IN  \/ /\ ~slugify(item.title).ok
              /\ cerr' = "ValueError"
           \/ /\ slugify(item.title).ok
              /\ \E r \in Range(tbl) : r.title = item.title
              /\ cerr' = "IntegrityError"
    /\ tbl' = snapshot
    /\ cpc' = "raised"
    /\ UNCHANGED <<next_pk, ci, by_pk, fin, snapshot, errlog>>
    /\ CreFrame

\* _instantiate_en_masse returns by_pk; _finishing starts
instantiate_done ==
    /\ cpc = "creating" /\ ci = Len(raws)
    /\ cpc' = "finishing"
    /\ fin' = 0
    /\ UNCHANGED <<tbl, next_pk, ci, by_pk, snapshot, cerr, errlog>>
    /\ CreFrame

\* _finishing: the item states no parent
finishing_no_parent ==
    /\ cpc = "finishing" /\ fin < Len(by_pk)
    /\ by_pk[fin + 1].raw.parent_object = <<>>
    /\ fin' = fin + 1
    /\ UNCHANGED <<tbl, next_pk, cpc, ci, by_pk, snapshot, cerr, errlog>>
    /\ CreFrame

\* _finishing: objects.get raises DoesNotExist and nothing catches it
finishing_not_found_propagates ==
    /\ cpc = "finishing" /\ fin < Len(by_pk)
    /\ LET sluggable == by_pk[fin + 1].raw.parent_object
       IN  /\ sluggable # <<>>
           /\ slugify(sluggable).ok
           /\ parent_candidates(tbl, sluggable) = {}
    /\ cerr' = "DoesNotExist"
    /\ tbl' = snapshot
    /\ cpc' = "raised"
    /\ UNCHANGED <<next_pk, ci, by_pk, fin, snapshot, errlog>>
    /\ CreFrame

\* _finishing: objects.get raises DoesNotExist; logged, next item
finishing_not_found ==
    /\ cpc = "finishing" /\ fin < Len(by_pk)
    /\ LET sluggable == by_pk[fin + 1].raw.parent_object
       IN  /\ sluggable # <<>>
           /\ slugify(sluggable).ok
           /\ parent_candidates(tbl, sluggable) = {}
    /\ errlog' = Append(errlog, [msg |-> "not found", pk |-> by_pk[fin + 1].pk])
    /\ fin' = fin + 1
    /\ UNCHANGED <<tbl, next_pk, cpc, ci, by_pk, snapshot, cerr>>
    /\ CreFrame

\* _finishing: the parent found is the item itself; logged, next item
finishing_own_parent ==
    /\ cpc = "finishing" /\ fin < Len(by_pk)
    /\ LET sluggable == by_pk[fin + 1].raw.parent_object
       IN  /\ sluggable # <<>>
           /\ slugify(sluggable).ok
           /\ \E p \in parent_candidates(tbl, sluggable) :
                 /\ parent_candidates(tbl, sluggable) = {p}
                 /\ p.pk = by_pk[fin + 1].pk
    /\ errlog' = Append(errlog, [msg |-> "own parent", pk |-> by_pk[fin + 1].pk])
    /\ fin' = fin + 1
    /\ UNCHANGED <<tbl, next_pk, cpc, ci, by_pk, snapshot, cerr>>
    /\ CreFrame

\* _finishing: the child is fetched, given its parent and saved
finishing_links ==
    /\ cpc = "finishing" /\ fin < Len(by_pk)
    /\ LET sluggable == by_pk[fin + 1].raw.parent_object
           pk == by_pk[fin + 1].pk
       IN  /\ sluggable # <<>>
           /\ slugify(sluggable).ok
           /\ \E p \in parent_candidates(tbl, sluggable) :
                 /\ parent_candidates(tbl, sluggable) = {p}
                 /\ p.pk # pk
                 /\ tbl' = [i \in DOMAIN tbl |->
                               IF tbl[i].pk = pk
                               THEN [tbl[i] EXCEPT !.parent = p.pk]
                               ELSE tbl[i]]
    /\ fin' = fin + 1
    /\ UNCHANGED <<next_pk, cpc, ci, by_pk, snapshot, cerr, errlog>>
    /\ CreFrame

\* _finishing raises: slugify fails on the label (ValueError) or several
\* rows carry the slug (MultipleObjectsReturned); the atomic block rolls back
finishing_raises ==
    /\ cpc = "finishing" /\ fin < Len(by_pk)
    /\ LET sluggable == by_pk[fin + 1].raw.parent_object
       IN  /\ sluggable # <<>>
           /\ \/ /\ ~slugify(sluggable).ok
                 /\ cerr' = "ValueError"
              \/ /\ slugify(sluggable).ok
                 /\ Cardinality(parent_candidates(tbl, sluggable)) > 1
                 /\ cerr' = "MultipleObjectsReturned"
    /\ tbl' = snapshot
    /\ cpc' = "raised"
    /\ UNCHANGED <<next_pk, ci, by_pk, fin, snapshot, errlog>>
    /\ CreFrame

\* _finishing is through; the atomic block commits and create_en_masse returns
create_en_masse_returns ==
    /\ cpc = "finishing" /\ fin = Len(by_pk)
    /\ cpc' = "returned"
    /\ UNCHANGED <<tbl, next_pk, ci, by_pk, fin, snapshot, cerr, errlog>>
    /\ CreFrame

NextCreate ==
    \/ handle_clear_database \/ handle_additive \/ create_no_files
    \/ create_en_masse \/ create_stores \/ create_raises \/ instantiate_done
    \/ finishing_no_parent \/ finishing_not_found \/ finishing_own_parent
    \/ finishing_links \/ finishing_raises \/ create_en_masse_returns

SpecCreate == InitCreate /\ [][NextCreate]_vars

\* the stored row with the given title (titles are unique)
RowOfTitle(title) == CHOOSE r \in Range(tbl) : r.title = title

\* fragment j states a parent whose label slugifies to fragment i's slug
NamesAsParent(j, i) ==
    /\ i # j
    /\ raws[j].parent_object # <<>>
    /\ slugify(raws[j].parent_object).ok
    /\ slugify(raws[i].title).ok
    /\ slugify(raws[j].parent_object).slug = slugify(raws[i].title).slug

\* C10: when create_en_masse has returned, every fragment B whose
\* parent_object label slugifies to the slug of another fragment A of the
\* batch has A's record as its stored parent, whether A comes before or
\* after B in the batch.
C10_ParentLinkedInEitherOrder ==
    cpc = "returned" =>
        \A i, j \in DOMAIN raws :
            NamesAsParent(j, i) =>
                /\ \E r \in Range(tbl) : r.title = raws[i].title
                /\ \E r \in Range(tbl) : r.title = raws[j].title
                /\ RowOfTitle(raws[j].title).parent = RowOfTitle(raws[i].title).pk

\* C10 witness: the child came first in the batch, its parent after it,
\* and the link is stored
C10_Witness ==
    /\ cpc = "returned"
    /\ \E i, j \in DOMAIN raws :
          /\ j < i /\ NamesAsParent(j, i)
          /\ RowOfTitle(raws[j].title).parent = RowOfTitle(raws[i].title).pk

-----------------------------------------------------------------------------
(* Claims about the atomic block *)

\* the rows of the batch that storage holds
BatchRows == {r \in Range(tbl) : \E i \in DOMAIN by_pk : by_pk[i].pk = r.pk}

\* C11: create_en_masse is all-or-nothing.  When an exception has left it,
\* storage is what it was when the call began and holds no record of the
\* batch; when it has returned, every fragment of the batch has its record.
C11_AllOrNothing ==
    /\ cpc = "raised" => tbl = snapshot /\ BatchRows = {}
    /\ cpc = "returned" =>
          /\ Len(by_pk) = Len(raws)
          /\ \A i \in DOMAIN raws :
                \E r \in Range(tbl) :
                    r.pk = by_pk[i].pk /\ r.title = raws[i].title

\* C11 witness: slugify raised for a later fragment after an earlier one
\* had been created, and the earlier one is gone
C11_Witness ==
    /\ cpc = "raised" /\ cerr = "ValueError"
    /\ Len(by_pk) >= 1 /\ ci < Len(raws)
    /\ BatchRows = {}

-----------------------------------------------------------------------------
(* Claims about the finishing pass *)

\* the stored row of an entry of by_pk
EntryRow(e) == CHOOSE r \in Range(tbl) : r.pk = e.pk

\* the entry's parent_object label slugifies to the slug of its own record
NamesItself(e) ==
    /\ e.raw.parent_object # <<>>
    /\ slugify(e.raw.parent_object).ok
    /\ slugify(e.raw.parent_object).slug = EntryRow(e).slug

\* the entry states a parent and no stored record matches the label
MatchesNoRecord(e) ==
    /\ e.raw.parent_object # <<>>
    /\ \/ ~slugify(e.raw.parent_object).ok
       \/ parent_candidates(tbl, e.raw.parent_object) = {}

\* the entry's label has a slug, and no stored record carries that slug
SlugOfNoRecord(e) ==
    /\ e.raw.parent_object # <<>>
    /\ slugify(e.raw.parent_object).ok
    /\ parent_candidates(tbl, e.raw.parent_object) = {}

\* the step of _finishing that skips the entry at hand: nothing is raised,
\* no row changes, and the pass stands at the next entry
SkipsEntry ==
    /\ cpc' = "finishing"
    /\ fin' = fin + 1
    /\ tbl' = tbl
    /\ cerr' = cerr

\* C12: when the finishing pass comes to a fragment whose parent_object
\* label slugifies to its own record's slug, it raises nothing, leaves the
\* record without a parent link and goes on to the next record.
C12_SelfParentSkipped ==
    [][(cpc = "finishing" /\ fin < Len(by_pk) /\ NamesItself(by_pk[fin + 1]))
          => SkipsEntry /\ EntryRow(by_pk[fin + 1]).parent = 0]_vars

\* C13 as stated: when the finishing pass comes to a fragment whose
\* parent_object label matches no stored record, it logs an error, raises
\* nothing, leaves the record without a parent link and goes on.
C13_NoMatchSkipped ==
    [][(cpc = "finishing" /\ fin < Len(by_pk) /\ MatchesNoRecord(by_pk[fin + 1]))
          => SkipsEntry /\ Len(errlog') = Len(errlog) + 1]_vars

\* C13 as amended: when the finishing pass comes to a fragment whose
\* parent_object label slugifies to a slug that no stored record carries,
\* it logs an error, raises nothing, changes no row and goes on to the next
\* record; once create_en_masse has returned, that record is stored without
\* a parent link.
C13_MissingParentSkipped ==
    /\ [][(cpc = "finishing" /\ fin < Len(by_pk)
             /\ SlugOfNoRecord(by_pk[fin + 1]))
            => /\ SkipsEntry
               /\ errlog' = Append(errlog, [msg |-> "not found",
                                            pk |-> by_pk[fin + 1].pk])]_vars
    /\ [](cpc = "returned" =>
            \A i \in DOMAIN by_pk :
                SlugOfNoRecord(by_pk[i]) =>
                    /\ \E r \in Range(tbl) : r.pk = by_pk[i].pk
                    /\ EntryRow(by_pk[i]).parent = 0)

\* C13 witness: the first fragment's parent was not found and logged, the
\* second fragment's link was made after it, and the call returned
C13_Witness ==
    /\ cpc = "returned" /\ Len(by_pk) = 2
    /\ SlugOfNoRecord(by_pk[1])
    /\ errlog = <<[msg |-> "not found", pk |-> by_pk[1].pk]>>
    /\ EntryRow(by_pk[1]).parent = 0
    /\ EntryRow(by_pk[2]).parent # 0

-----------------------------------------------------------------------------
(* Claims about the life of a record *)

Pks(rows) == {r.pk : r \in Range(rows)}

RowOfPk(rows, pk) == CHOOSE r \in Range(rows) : r.pk = pk

\* C14: a record goes from absent to created without parent, and from there
\* to linked or link-failed.  A row that create stores has no parent link,
\* whatever parent_object the fragment gives; a parent link is written only
\* by the finishing pass, after every fragment of the batch has been
\* created, on the record the pass stands at, which had no link; the pass
\* never steps back, and no two entries of by_pk are the same record.
C14_RecordStateMachine ==
    [][/\ \A pk \in Pks(tbl') \ Pks(tbl) : RowOfPk(tbl', pk).parent = 0
       /\ \A pk \in Pks(tbl') \cap Pks(tbl) :
             RowOfPk(tbl', pk).parent # RowOfPk(tbl, pk).parent =>
                /\ cpc = "finishing" /\ ci = Len(raws)
                /\ Len(by_pk) = Len(raws)
                /\ fin < Len(by_pk) /\ by_pk[fin + 1].pk = pk
                /\ fin' = fin + 1
                /\ RowOfPk(tbl, pk).parent = 0
       /\ fin' \in {fin, fin + 1}
       /\ \A i, j \in DOMAIN by_pk : by_pk[i].pk = by_pk[j].pk => i = j]_vars

\* C14 witness: a record was created when its parent was already stored,
\* stayed without link through creation, and was linked by the finishing pass
C14_Witness ==
    /\ cpc = "returned"
    /\ \E i \in DOMAIN by_pk :
          /\ EntryRow(by_pk[i]).parent # 0
          /\ EntryRow(by_pk[i]).parent < by_pk[i].pk

\* C15: every stored record has a non-empty slug that is slugify of its
\* title; create of a fragment whose title has no slug (empty, or nothing
\* left after tag stripping and transliteration) raises ValueError and
\* stores nothing.
C15_SlugOfTitle ==
    /\ [](\A r \in Range(tbl) :
            /\ r.slug # <<>>
            /\ slugify(r.title).ok
            /\ r.slug = slugify(r.title).slug)
    /\ [][(cpc = "creating" /\ ci < Len(raws) /\ ~slugify(raws[ci + 1].title).ok)
            => /\ cpc' = "raised" /\ cerr' = "ValueError"
               /\ \A r \in Range(tbl') : r.title # raws[ci + 1].title]_vars

\* C15 witness: create stored the first fragment under the slug of its
\* transliterated title, then raised ValueError for the second, whose title
\* is empty, and storage holds neither
C15_Witness ==
    /\ cpc = "raised" /\ cerr = "ValueError"
    /\ ci = 1 /\ Len(raws) = 2
    /\ raws[1].title = <<"e'">>
    /\ raws[2].title = <<>>
    /\ \A r \in Range(tbl) : r.pk # by_pk[1].pk

\* C16: once create_en_masse has returned, no two stored records of the
\* type have the same slug.
C16_SlugsUnique ==
    cpc = "returned" =>
        \A r1, r2 \in Range(tbl) : r1.slug = r2.slug => r1.pk = r2.pk

-----------------------------------------------------------------------------
(* Storage under every operation: refinement, mass instantiation and the  *)
(* resolution pass                                                         *)

InitStorage == InitResolve \/ InitCreate

NextStorage == NextResolve \/ NextCreate

SpecStorage == InitStorage /\ [][NextStorage]_vars

\* C17: records are deleted only by the bulk clear before a reload.  A
\* refinement without --additive deletes every stored record of the model
\* before the first record of the batch is created; one with --additive
\* deletes nothing; apart from the clear, a row leaves storage only when the
\* atomic block rolls back a row it created in the same call, and no
\* step of a resolution pass removes a row.
C17_DeletedOnlyByClear ==
    /\ [][/\ (cpc = "handle" /\ ~additive) => tbl' = <<>>
          /\ (cpc = "handle" /\ additive) => tbl' = tbl
          /\ cpc # "handle" =>
                \A pk \in Pks(tbl) \ Pks(tbl') :
                    /\ cpc' = "raised"
                    /\ \E i \in DOMAIN by_pk : by_pk[i].pk = pk
          /\ \A m \in DOMAIN db : Pks(db'[m]) = Pks(db[m])]_vars
    /\ []((cpc = "creating" /\ ci = 0 /\ ~additive) => tbl = <<>>)
    /\ []((cpc \in {"creating", "finishing", "returned", "raised"} /\ additive)
            => \A r \in Range(tbl0) : r \in Range(tbl))

\* C17 witness: storage held a record, the refinement ran without
\* --additive, and the batch was created into a cleared table
C17_Witness ==
    /\ ~additive /\ tbl0 # <<>>
    /\ cpc = "returned"
    /\ tbl # <<>>
    /\ Pks(tbl) \cap Pks(tbl0) = {}

-----------------------------------------------------------------------------
(* Resolvers on a string: yamldoc/util/resolution.py and markup.py.  A text *)
(* is a tuple of symbols: the word "w", the Markdown emphasis mark "*",     *)
(* the line break "nl", the space "sp" that unwrap puts for a line break,   *)
(* shorthand tokens, and HTML tags.                                         *)

\* tokens with a function registered on Inline
Registry == {"{{br}}", "{{mask|*w*}}", "{{who}}"}

\* what the registered function returns: br() a line break tag, mask(s) its
\* argument, here Markdown, and a function that looks at its subject a
\* mark of that subject
Replacement(token, subject) ==
    CASE token = "{{br}}"       -> <<"<br />">>
      [] token = "{{mask|*w*}}" -> <<"*", "w", "*">>
      [] token = "{{who}}"      -> <<"#" \o ToString(subject)>>

\* Inline.collective_sub(string, subject=...): registered tokens are
\* replaced until none is left; anything else stays as it is
RECURSIVE collective_sub(_, _)
collective_sub(string, subject) ==
    IF \A i \in DOMAIN string : string[i] \notin Registry THEN string
    ELSE LET i == CHOOSE k \in DOMAIN string :
                     /\ string[k] \in Registry
                     /\ \A j \in 1..(k - 1) : string[j] \notin Registry
         IN  collective_sub(SubSeq(string, 1, i - 1)
                            \o Replacement(string[i], subject)
                            \o SubSeq(string, i + 1, Len(string)), subject)

\* yamlwrap.unwrap: a line break between two lines of a paragraph becomes a
\* space; blank lines and the line break at the end stay
unwrap(string) ==
    [i \in DOMAIN string |->
        IF /\ string[i] = "nl" /\ 1 < i /\ i < Len(string)
           /\ string[i - 1] # "nl" /\ string[i + 1] # "nl"
        THEN "sp" ELSE string[i]]

\* the paragraphs of a Markdown text: stretches between blank lines, without
\* the line breaks at their ends
RECURSIVE Paragraphs(_, _)
Paragraphs(s, cur) ==
    LET done == IF cur = <<>> THEN <<>> ELSE <<cur>>
    IN  IF s = <<>> THEN done
        ELSE IF Head(s) = "nl" /\ Len(s) > 1 /\ s[2] = "nl"
             THEN done \o Paragraphs(Tail(Tail(s)), <<>>)
        ELSE IF Head(s) = "nl" /\ (cur = <<>> \/ Len(s) = 1)
             THEN Paragraphs(Tail(s), cur)
        ELSE Paragraphs(Tail(s), Append(cur, Head(s)))

\* Markdown emphasis inside a paragraph: a pair of marks becomes <em></em>
RECURSIVE Emphasis(_, _)
Emphasis(s, open) ==
    IF s = <<>> THEN <<>>
    ELSE IF Head(s) = "*" /\ open
         THEN <<"</em>">> \o Emphasis(Tail(s), FALSE)
    ELSE IF Head(s) = "*" /\ "*" \in Range(Tail(s))
         THEN <<"<em>">> \o Emphasis(Tail(s), TRUE)
    ELSE <<Head(s)>> \o Emphasis(Tail(s), open)

RECURSIVE JoinParagraphs(_)
JoinParagraphs(ps) ==
    IF ps = <<>> THEN <<>>
    ELSE <<"<p>">> \o Emphasis(Head(ps), FALSE) \o <<"</p>">>
         \o (IF Len(ps) > 1 THEN <<"nl">> ELSE <<>>)
         \o JoinParagraphs(Tail(ps))

\* markdown.markdown(raw, extensions=[footnotes, toc])
markdown(raw) == JoinParagraphs(Paragraphs(raw, <<>>))

\* markdown_on_string(raw)
markdown_on_string(raw) == markdown(raw)

\* inline_on_string with the text unwrapped on the way
inline_on_string_unwrapping(raw, subject) == collective_sub(unwrap(raw), subject)

\* inline_on_string(raw, **kwargs)
inline_on_string(raw, subject) == collective_sub(raw, subject)

\* combo with Markdown converted before the shorthand is resolved
combo_markdown_first(instance, raw) ==
    inline_on_string(markdown_on_string(unwrap(raw)), instance)

\* combo(instance, raw)
combo(instance, raw) ==
    markdown_on_string(inline_on_string(unwrap(raw), instance))

(* Specification of the resolvers on a string *)

\* the pieces of a raw text: a word, an emphasised word, a token of each
\* registered function, and a token that nothing is registered for
Units ==
    {<<"w">>, <<"*", "w", "*">>, <<"{{br}}">>, <<"{{mask|*w*}}">>,
     <<"{{who}}">>, <<"{{no}}">>}

\* what stands between two pieces: the line break of a wrapped paragraph, or
\* a blank line
Breaks == {<<"nl">>, <<"nl", "nl">>}

RECURSIVE Join(_, _)
Join(us, bs) ==
    IF Len(us) = 1 THEN us[1]
    ELSE us[1] \o bs[1] \o Join(Tail(us), Tail(bs))

\* raw field contents, with or without a line break at the end
RawTexts ==
    {<<>>} \cup
    UNION {{Join(us, bs) \o e : us \in [1..k -> Units],
                                bs \in [1..(k - 1) -> Breaks],
                                e \in {<<>>, <<"nl">>}} : k \in 1..MaxText}

\* pks of the instances a resolver is called for
Subjects == {1, 2}

InitText ==
    /\ t_fn \in {"inline_on_string", "markdown_on_string", "combo"}
    /\ t_raw \in RawTexts
    /\ t_subject \in (IF t_fn = "combo" THEN Subjects
                      ELSE IF t_fn = "inline_on_string" THEN Subjects \cup {0}
                      ELSE {0})
    /\ t_pc = "start" /\ t_out = <<>> /\ t_again = <<>>
    /\ SelIdle /\ ResIdle /\ CreIdle
    /\ OrdIdle /\ CmpIdle /\ AclIdle

TxtFrame ==
    /\ UNCHANGED <<t_fn, t_raw, t_subject>>
    /\ UNCHANGED sel_vars /\ UNCHANGED res_vars /\ UNCHANGED cre_vars
    /\ UNCHANGED ord_vars /\ UNCHANGED cmp_vars /\ UNCHANGED acl_vars

call_inline_on_string ==
    /\ t_pc = "start" /\ t_fn = "inline_on_string"
    /\ t_out' = inline_on_string(t_raw, t_subject)
    /\ t_pc' = "once"
    /\ UNCHANGED t_again /\ TxtFrame

\* inline_on_string is given what it returned
call_inline_on_string_again ==
    /\ t_pc = "once" /\ t_fn = "inline_on_string"
    /\ t_again' = inline_on_string(t_out, t_subject)
    /\ t_pc' = "twice"
    /\ UNCHANGED t_out /\ TxtFrame

call_markdown_on_string ==
    /\ t_pc = "start" /\ t_fn = "markdown_on_string"
    /\ t_out' = markdown_on_string(t_raw)
    /\ t_pc' = "once"
    /\ UNCHANGED t_again /\ TxtFrame

\* visit_field calls resolver(instance, prior_contents) with combo
call_combo ==
    /\ t_pc = "start" /\ t_fn = "combo"
    /\ t_out' = combo(t_subject, t_raw)
    /\ t_pc' = "once"
    /\ UNCHANGED t_again /\ TxtFrame

NextText ==
    \/ call_inline_on_string \/ call_inline_on_string_again
    \/ call_markdown_on_string \/ call_combo

SpecText == InitText /\ [][NextText]_vars

-----------------------------------------------------------------------------
(* Claims about the resolvers on a string *)

RECURSIVE Count(_, _)
Count(sym, s) ==
    IF s = <<>> THEN 0
    ELSE (IF Head(s) = sym THEN 1 ELSE 0) + Count(sym, Tail(s))

InnerBreaks(s) ==
    {i \in DOMAIN s : /\ s[i] = "nl" /\ 1 < i /\ i < Len(s)
                      /\ s[i - 1] # "nl" /\ s[i + 1] # "nl"}

\* blank lines of the raw text
BlankLines(s) ==
    {i \in DOMAIN s : s[i] = "nl" /\ i < Len(s) /\ s[i + 1] = "nl"}

\* C20: combo unwraps, then resolves the shorthand with the instance as
\* subject, then converts Markdown.  So in its result no token of a
\* registered function and no emphasis mark is left: the Markdown that a
\* token's function returned is converted like the Markdown of the text;
\* a function that looks at its subject saw the instance; and every
\* paragraph of the raw text is one <p> element whose wrapped lines are
\* joined by a space.
C20_ComboOrder ==
    (t_fn = "combo" /\ t_pc = "once") =>
        /\ Range(t_out) \cap (Registry \cup {"*"}) = {}
        /\ Count("<em>", t_out) * 2 =
              Count("*", t_raw) + 2 * Count("{{mask|*w*}}", t_raw)
        /\ Count("</em>", t_out) = Count("<em>", t_out)
        /\ Count("#" \o ToString(t_subject), t_out) = Count("{{who}}", t_raw)
        /\ Count("<p>", t_out) =
              (IF t_raw = <<>> THEN 0 ELSE 1 + Cardinality(BlankLines(t_raw)))
        /\ Count("sp", t_out) = Cardinality(InnerBreaks(t_raw))
        /\ \A i \in DOMAIN t_out :
              t_out[i] = "nl" =>
                  /\ 1 < i /\ i < Len(t_out)
                  /\ t_out[i - 1] = "</p>" /\ t_out[i + 1] = "<p>"

\* C20 witness: a paragraph wrapped over two lines, the second made by a
\* token whose function returns Markdown, came out as one paragraph with
\* the emphasis converted
C20_Witness ==
    /\ t_fn = "combo" /\ t_pc = "once"
    /\ t_raw = <<"w", "nl", "{{mask|*w*}}">>
    /\ t_out = <<"<p>", "w", "sp", "<em>", "w", "</em>", "</p>">>


-----------------------------------------------------------------------------
(* Calls of the resolver *)

\* the "call" events of the log that are about the node of the event e
CallsOf(e) ==
    {j \in EvIdx("call") : EvNode(log[j]) = EvNode(e)}

\* C23: the resolver is called exactly once for every node whose prior
\* value is not None, with that node's instance and value, and never for a
\* node whose prior value is None.
C23_ResolverCalledOncePerValue ==
    /\ \A i \in EvIdx("yield") :
          LET visited == ~(i = Len(log) /\ pc = "visit")
          IN  Cardinality(CallsOf(log[i])) =
                 (IF visited /\ log[i].v # None THEN 1 ELSE 0)
    /\ \A j \in EvIdx("call") :
          /\ j > 1 /\ log[j - 1].ev = "yield"
          /\ EvNode(log[j - 1]) = EvNode(log[j])
          /\ log[j - 1].v = log[j].v
          /\ log[j].v # None

\* C23 witness: a consumed pass that met a node holding None and a node
\* holding text, and called the resolver for the second only
C23_Witness ==
    /\ pc = "done"
    /\ \E i, k \in EvIdx("yield") :
          /\ log[i].v = None /\ CallsOf(log[i]) = {}
          /\ log[k].v # None /\ Cardinality(CallsOf(log[k])) = 1


-----------------------------------------------------------------------------
(* The allowlist of a model *)

\* the fields yielded for the instance pk of model m, in the order of their
\* yielding
YieldedFields(m, pk) ==
    LET ys == SelectSeq(log, LAMBDA e : e.ev = "yield" /\ e.m = m /\ e.pk = pk)
    IN  [i \in DOMAIN ys |-> ys[i].f]

\* whether the tuple s begins with the tuple t
StartsWith(s, t) == Len(t) <= Len(s) /\ SubSeq(s, 1, Len(t)) = t

\* C24: within one traversal the field selector is applied once per model,
\* and the allowlist it gave is used for every instance of the model, never
\* computed again per instance.
C24_AllowlistOncePerModel ==
    /\ \A i, j \in EvIdx("select") : log[i].m = log[j].m => i = j
    /\ \A i \in EvIdx("yield") :
          \E j \in EvIdx("select") : j < i /\ log[j].m = log[i].m
    /\ \A i \in EvIdx("yield") :
          (\A j \in EvIdx("select") : j > i => log[j].m = log[i].m)
              => StartsWith(field_allowlist,
                            YieldedFields(log[i].m, log[i].pk))
    /\ pc = "done" =>
          \A i, k \in EvIdx("yield") :
              log[i].m = log[k].m =>
                  YieldedFields(log[i].m, log[i].pk)
                      = YieldedFields(log[k].m, log[k].pk)

\* C24 witness: a consumed pass over a model with two instances and an
\* allowlist of two fields or more, selected once
C24_Witness ==
    /\ pc = "done"
    /\ \E i, k \in EvIdx("yield") :
          /\ log[i].m = log[k].m /\ log[i].pk # log[k].pk
          /\ Len(YieldedFields(log[i].m, log[i].pk)) >= 2
          /\ Cardinality({j \in EvIdx("select") : log[j].m = log[i].m}) = 1


-----------------------------------------------------------------------------
(* Several fields of one instance *)

\* what a visit of the node n = <<m, pk, f>> has to store, given what the
\* field held when the pass started
ResolvedValue(n) ==
    LET r == Row0(n[1], n[2])
    IN  new_contents(resolver, r, n[3], r.vals[n[3]])

\* C25: when a model has several fields in its allowlist, a fully consumed
\* pass leaves every one of them resolved in storage; a later field of an
\* instance is read only after the earlier field has been written and saved,
\* and a save for a later field never puts back the unresolved value of an
\* earlier one.
C25_EveryFieldResolved ==
    /\ pc = "done" =>
          \A n \in ExpectedNodes : DbVal(n[1], n[2], n[3]) = ResolvedValue(n)
    /\ \A i, k \in EvIdx("yield") :
          (i < k /\ log[i].m = log[k].m /\ log[i].pk = log[k].pk) =>
              \E j \in EvIdx("save") :
                  /\ i < j /\ j < k /\ log[j].ok
                  /\ EvNode(log[j]) = EvNode(log[i])
    /\ \A j \in EvIdx("save") :
          log[j].ok => DbVal(log[j].m, log[j].pk, log[j].f) = log[j].v

\* C25 witness: a consumed pass that changed two fields of the same
\* instance, both of which storage holds resolved
C25_Witness ==
    /\ pc = "done"
    /\ \E n1, n2 \in ExpectedNodes :
          /\ n1[1] = n2[1] /\ n1[2] = n2[2] /\ n1[3] # n2[3]
          /\ \A n \in {n1, n2} :
                /\ DbVal(n[1], n[2], n[3]) # Row0(n[1], n[2]).vals[n[3]]
                /\ DbVal(n[1], n[2], n[3]) = ResolvedValue(n)


-----------------------------------------------------------------------------
(* What a pass leaves alone *)

\* whether the pass may write field f of model m: the model passes the
\* screen and the selector names the field
MayWrite(m, f) ==
    Admitted(m) /\ f \in Range(apply_selector(field_selector, m))

\* C26: a pass whose resolver does not itself modify records changes only
\* the allowlist fields of screened models; every other field of a visited
\* instance and every instance of a model that fails the screen is stored
\* after the pass as it was before, and no row appears or disappears.
C26_OnlyAllowlistFieldsChange ==
    \A m \in ModelNames :
        /\ Len(db[m]) = Len(db0[m])
        /\ \A k \in DOMAIN db0[m] :
              /\ db[m][k].pk = db0[m][k].pk
              /\ \A f \in Range(ModelDefs[m].fields) :
                    ~MayWrite(m, f) => db[m][k].vals[f] = db0[m][k].vals[f]

\* C26 witness: a consumed pass that changed storage, over a site with a
\* screened-out model that has rows and a visited model with a field
\* outside its allowlist
C26_Witness ==
    /\ pc = "done" /\ db # db0
    /\ \E m \in Range(SiteModels(apps)) : ~Admitted(m) /\ db0[m] # <<>>
    /\ \E i \in EvIdx("save") :
          \E f \in Range(ModelDefs[log[i].m].fields) : ~MayWrite(log[i].m, f)


-----------------------------------------------------------------------------
(* The clear of a refinement and the creation transaction *)

\* C27: in a refinement without --additive the clear is not part of the
\* creation transaction: when create_en_masse fails after the clear, the
\* new batch is rolled back and the records stored before are not restored,
\* so the table is left empty.
C27_ClearOutsideTransaction ==
    ~additive =>
        /\ cpc \in {"creating", "finishing"} => snapshot = <<>>
        /\ cpc = "raised" => tbl = <<>>

\* C27 witness: records were stored, the refinement cleared them, created
\* a row of the batch and failed on a later fragment; the table is empty
C27_Witness ==
    /\ ~additive /\ tbl0 # <<>>
    /\ cpc = "raised" /\ ci >= 1
    /\ tbl = <<>>


-----------------------------------------------------------------------------
(* Specification of screen_from_acl *)

InitScreen ==
    /\ a_allow \in SUBSET ModelNames
    /\ a_deny \in SUBSET ModelNames
    /\ a_model \in ModelNames
    /\ a_pc = "start" /\ a_err = "" /\ a_admits = FALSE
    /\ SelIdle /\ ResIdle /\ CreIdle /\ TxtIdle /\ OrdIdle /\ CmpIdle

AclFrame ==
    /\ UNCHANGED <<a_allow, a_deny, a_model>>
    /\ UNCHANGED sel_vars /\ UNCHANGED res_vars /\ UNCHANGED cre_vars
    /\ UNCHANGED txt_vars /\ UNCHANGED ord_vars /\ UNCHANGED cmp_vars

\* screen_from_acl(allow, deny) returns a screen
ScreenBuilt ==
    /\ a_pc = "start"
    /\ screen_from_acl_raises(a_allow, a_deny) = ""
    /\ a_pc' = "built"
    /\ UNCHANGED <<a_err, a_admits>>
    /\ AclFrame

\* screen_from_acl(allow, deny) raises
ScreenRaises ==
    /\ a_pc = "start"
    /\ screen_from_acl_raises(a_allow, a_deny) # ""
    /\ a_pc' = "raised"
    /\ a_err' = screen_from_acl_raises(a_allow, a_deny)
    /\ UNCHANGED a_admits
    /\ AclFrame

\* the returned screen is called with a model
ScreenAsked ==
    /\ a_pc = "built"
    /\ a_pc' = "asked"
    /\ a_admits' = screen_from_acl(Acl(a_allow, a_deny), a_model)
    /\ UNCHANGED a_err
    /\ AclFrame

NextScreen == ScreenBuilt \/ ScreenRaises \/ ScreenAsked

SpecScreen == InitScreen /\ [][NextScreen]_vars

\* C28: screen_from_acl treats allow and deny as mutually exclusive: a call
\* with both non-empty is rejected; with only deny the screen admits exactly
\* the models not in deny; with only allow exactly the models in allow; with
\* both empty every model.
C28_AllowDenyExclusive ==
    /\ (a_allow # {} /\ a_deny # {}) => a_pc \in {"start", "raised"}
    /\ a_pc = "raised" =>
          (a_err = "AssertionError" /\ a_allow # {} /\ a_deny # {})
    /\ a_pc = "asked" =>
          /\ (a_allow = {} /\ a_deny # {}) => (a_admits <=> a_model \notin a_deny)
          /\ (a_allow # {} /\ a_deny = {}) => (a_admits <=> a_model \in a_allow)
          /\ (a_allow = {} /\ a_deny = {}) => a_admits

\* C28 witness: a call with a model in allow and another in deny was
\* rejected
C28_Witness ==
    /\ a_pc = "raised" /\ a_err = "AssertionError"
    /\ a_allow = {"Doc"} /\ a_deny = {"Plain"}


-----------------------------------------------------------------------------
(* Mapping functions for fragments: yamldoc/util/misc.py, util/file.py and  *)
(* management/misc.py.  A dict is the tuple of its entries [k, v] in        *)
(* insertion order, with no key twice; a value is a list.                   *)

Entry(k, v) == [k |-> k, v |-> v]

\* the keys of a dict
Keys(d) == {d[i].k : i \in DOMAIN d}

\* d[k] for a key of d
Value(d, k) == d[CHOOSE i \in DOMAIN d : d[i].k = k].v

\* d[k] = v: a key that is there keeps its place, a new key goes last
SetItem(d, k, v) ==
    IF k \in Keys(d)
    THEN [i \in DOMAIN d |-> IF d[i].k = k THEN Entry(k, v) ELSE d[i]]
    ELSE Append(d, Entry(k, v))

\* sorted(set(list))
RECURSIVE Sorted(_)
Sorted(S) ==
    IF S = {} THEN <<>>
    ELSE LET least == CHOOSE x \in S : \A y \in S : x <= y
         IN  <<least>> \o Sorted(S \ {least})

\* a copy that takes an entry out of b before it sets it, so that the key
\* goes last
RECURSIVE copy_in_order_moving_keys(_, _)
copy_in_order_moving_keys(a, b) ==
    IF a = <<>> THEN b
    ELSE copy_in_order_moving_keys(
             Tail(a),
             Append(SelectSeq(b, LAMBDA e : e.k # Head(a).k), Head(a)))

\* copy_in_order(a, b): for k in a: b[k] = a[k]
RECURSIVE copy_in_order(_, _)
copy_in_order(a, b) ==
    IF a = <<>> THEN b
    ELSE copy_in_order(Tail(a), SetItem(b, Head(a).k, Head(a).v))

\* the loop of order(): ordered[f] = fragment[f] for every f in fields that
\* is a key of the fragment (KeyError is passed over)
RECURSIVE TakeFields(_, _, _)
TakeFields(fields, fragment, ordered) ==
    IF fields = <<>> THEN ordered
    ELSE TakeFields(Tail(fields), fragment,
                    IF Head(fields) \in Keys(fragment)
                    THEN SetItem(ordered, Head(fields),
                                 Value(fragment, Head(fields)))
                    ELSE ordered)

\* field_order_fn(fields)(fragment), with the default finalizer
field_order_fn(fields, fragment) ==
    copy_in_order(fragment, TakeFields(fields, fragment, <<>>))

\* an alphabetizer that deletes the key and inserts it anew, so that the
\* sorted list becomes the last entry
unique_alphabetizer_reinserting(key, fragment) ==
    IF key \in Keys(fragment)
    THEN Append(SelectSeq(fragment, LAMBDA e : e.k # key),
                Entry(key, Sorted(Range(Value(fragment, key)))))
    ELSE fragment

\* unique_alphabetizer(key)(fragment)
unique_alphabetizer(key, fragment) ==
    IF key \in Keys(fragment)
    THEN SetItem(fragment, key, Sorted(Range(Value(fragment, key))))
    ELSE fragment

\* the remaining keys of the fragment, for an order_assetmap without its
\* second loop
file_leftovers_dropped(fragment, ordered) == ordered

\* the second loop of file.transform's order_assetmap: the keys of the
\* fragment that are not in ordered yet
RECURSIVE file_leftovers(_, _)
file_leftovers(fragment, ordered) ==
    IF fragment = <<>> THEN ordered
    ELSE file_leftovers(Tail(fragment),
                        IF Head(fragment).k \notin Keys(ordered)
                        THEN SetItem(ordered, Head(fragment).k, Head(fragment).v)
                        ELSE ordered)

\* the first loop of file.transform's order_assetmap: the model's field
\* names that are keys of the fragment
RECURSIVE file_model_fields(_, _, _)
file_model_fields(fields, fragment, ordered) ==
    IF fields = <<>> THEN ordered
    ELSE file_model_fields(Tail(fields), fragment,
                           IF Head(fields) \in Keys(fragment)
                           THEN SetItem(ordered, Head(fields),
                                        Value(fragment, Head(fields)))
                           ELSE ordered)

\* order_assetmap inside the deprecated yamldoc.util.file.transform, for a
\* model with the field names fields
file_order_assetmap(fields, fragment) ==
    LET ordered == file_leftovers(fragment,
                                  file_model_fields(fields, fragment, <<>>))
    IN  IF "tags" \in Keys(ordered)
        THEN SetItem(ordered, "tags", Sorted(Range(Value(ordered, "tags"))))
        ELSE ordered

\* order_assetmap inside RawTextEditingCommand._transform
command_order_assetmap(fields, fragment) ==
    unique_alphabetizer("tags", field_order_fn(fields, fragment))


-----------------------------------------------------------------------------
(* Specification of the mapping functions *)

KeyNames == {"a", "b", "c", "tags"}

\* the lists that a key holds: one in order, one with a duplicate and out
\* of order
Lists == {<<1>>, <<2, 1, 2>>}

\* tuples of names, no name twice
Distinct(S, n) ==
    {s \in SeqsUpTo(S, n) : \A i, j \in DOMAIN s : s[i] = s[j] => i = j}

\* the fragments: dicts of up to MaxKeys entries
Dicts ==
    UNION {{[i \in DOMAIN ks |-> Entry(ks[i], vs[i])] :
                vs \in [DOMAIN ks -> Lists]} :
           ks \in Distinct(KeyNames, MaxKeys)}

InitOrder ==
    /\ o_fn \in {"field_order_fn", "unique_alphabetizer",
                 "file.transform", "_transform"}
    /\ o_fields \in (CASE o_fn = "field_order_fn" -> SeqsUpTo(KeyNames, MaxFields)
                       [] o_fn = "unique_alphabetizer" -> {<<>>}
                       [] OTHER -> Distinct(KeyNames, MaxFields))
    /\ o_key \in (IF o_fn = "unique_alphabetizer" THEN KeyNames ELSE {""})
    /\ o_fragment \in Dicts
    /\ o_pc = "start" /\ o_out = <<>> /\ o_again = <<>>
    /\ SelIdle /\ ResIdle /\ CreIdle /\ TxtIdle /\ CmpIdle /\ AclIdle

OrdFrame ==
    /\ UNCHANGED <<o_fn, o_fields, o_key, o_fragment>>
    /\ UNCHANGED sel_vars /\ UNCHANGED res_vars /\ UNCHANGED cre_vars
    /\ UNCHANGED txt_vars /\ UNCHANGED cmp_vars /\ UNCHANGED acl_vars

\* field_order_fn(fields)(fragment)
call_field_order_fn ==
    /\ o_fn = "field_order_fn" /\ o_pc = "start"
    /\ o_out' = field_order_fn(o_fields, o_fragment)
    /\ o_pc' = "once"
    /\ UNCHANGED o_again /\ OrdFrame

\* the same closure applied to what it returned
call_field_order_fn_again ==
    /\ o_fn = "field_order_fn" /\ o_pc = "once"
    /\ o_again' = field_order_fn(o_fields, o_out)
    /\ o_pc' = "twice"
    /\ UNCHANGED o_out /\ OrdFrame

\* unique_alphabetizer(key)(fragment)
call_unique_alphabetizer ==
    /\ o_fn = "unique_alphabetizer" /\ o_pc = "start"
    /\ o_out' = unique_alphabetizer(o_key, o_fragment)
    /\ o_pc' = "once"
    /\ UNCHANGED o_again /\ OrdFrame

\* yamldoc.util.file.transform: its order_assetmap is applied to a fragment
call_file_transform ==
    /\ o_fn = "file.transform" /\ o_pc = "start"
    /\ o_out' = file_order_assetmap(o_fields, o_fragment)
    /\ o_pc' = "once"
    /\ UNCHANGED o_again /\ OrdFrame

\* RawTextEditingCommand._transform: its order_assetmap is applied to a
\* fragment
call_command_transform ==
    /\ o_fn = "_transform" /\ o_pc = "start"
    /\ o_out' = command_order_assetmap(o_fields, o_fragment)
    /\ o_pc' = "once"
    /\ UNCHANGED o_again /\ OrdFrame

NextOrder ==
    \/ call_field_order_fn \/ call_field_order_fn_again
    \/ call_unique_alphabetizer
    \/ call_file_transform \/ call_command_transform

SpecOrder == InitOrder /\ [][NextOrder]_vars


\* the keys of a dict in their order
KeySeq(d) == [i \in DOMAIN d |-> d[i].k]

\* the place of the key k in the dict d
Pos(d, k) == CHOOSE i \in DOMAIN d : d[i].k = k

\* the first place of the name f in the tuple fields
First(fields, f) ==
    CHOOSE i \in DOMAIN fields :
        fields[i] = f /\ \A j \in 1..(i - 1) : fields[j] # f

\* whether two dicts hold the same keys with the same values, in any order
SameEntries(d, e) ==
    /\ Len(d) = Len(e) /\ Keys(d) = Keys(e)
    /\ \A k \in Keys(d) : Value(d, k) = Value(e, k)

\* C21: field_order_fn(fields) returns a mapping with exactly the keys and
\* values of its input; the keys named in fields come first, in the order of
\* fields, the other keys follow in their original relative order; applying
\* it twice gives what applying it once gives.
C21_FieldOrder ==
    (o_fn = "field_order_fn" /\ o_pc \in {"once", "twice"}) =>
        /\ SameEntries(o_out, o_fragment)
        /\ \A k1, k2 \in Keys(o_out) :
              LET named1 == k1 \in Range(o_fields)
                  named2 == k2 \in Range(o_fields)
                  before == Pos(o_out, k1) < Pos(o_out, k2)
              IN  /\ (named1 /\ ~named2) => before
                  /\ (named1 /\ named2) =>
                        (before <=> First(o_fields, k1) < First(o_fields, k2))
                  /\ (~named1 /\ ~named2) =>
                        (before <=> Pos(o_fragment, k1) < Pos(o_fragment, k2))
        /\ o_pc = "twice" => o_again = o_out

\* C21 witness: a named key moved to the front from the middle, and the two
\* other keys kept their order, also on the second application
C21_Witness ==
    /\ o_fn = "field_order_fn" /\ o_pc = "twice"
    /\ o_fields = <<"c", "b">>
    /\ KeySeq(o_fragment) = <<"tags", "b", "a">>
    /\ KeySeq(o_out) = <<"b", "tags", "a">>
    /\ o_again = o_out

\* whether a list is in ascending order without duplicates
Ascending(l) == \A i, j \in DOMAIN l : i < j => l[i] < l[j]

\* C22: unique_alphabetizer(key) replaces the list under key by its
\* distinct elements in ascending order and changes nothing else: every
\* other key keeps its value and place, and a mapping without key is
\* returned unchanged.
C22_UniqueAlphabetizer ==
    (o_fn = "unique_alphabetizer" /\ o_pc = "once") =>
        /\ KeySeq(o_out) = KeySeq(o_fragment)
        /\ \A i \in DOMAIN o_fragment :
              IF o_fragment[i].k = o_key
              THEN /\ Ascending(o_out[i].v)
                   /\ Range(o_out[i].v) = Range(o_fragment[i].v)
              ELSE o_out[i] = o_fragment[i]
        /\ o_key \notin Keys(o_fragment) => o_out = o_fragment

\* C22 witness: the list under the key, first of three entries, was sorted
\* and lost its duplicate; the same list under another key was left alone
C22_Witness ==
    /\ o_fn = "unique_alphabetizer" /\ o_pc = "once" /\ o_key = "tags"
    /\ Len(o_fragment) = 3
    /\ o_fragment[1] = Entry("tags", <<2, 1, 2>>)
    /\ o_fragment[2].v = <<2, 1, 2>>
    /\ o_out[1] = Entry("tags", <<1, 2>>)
    /\ o_out[2] = o_fragment[2]

\* C29: the deprecated yamldoc.util.file.transform maps every fragment to
\* the same ordered mapping as unique_alphabetizer('tags') applied after
\* field_order_fn(names of the model's fields): same keys and values, same
\* key order, same sorted duplicate-free tags.
C29_LegacyTransformAgrees ==
    /\ (o_fn = "file.transform" /\ o_pc = "once") =>
          o_out = unique_alphabetizer("tags",
                                      field_order_fn(o_fields, o_fragment))
    /\ (o_fn = "_transform" /\ o_pc = "once") =>
          o_out = file_order_assetmap(o_fields, o_fragment)

\* C29 witness: the deprecated function moved a model field to the front,
\* kept the keys that are no model fields behind it, and sorted the tags
C29_Witness ==
    /\ o_fn = "file.transform" /\ o_pc = "once"
    /\ o_fields = <<"c", "b">>
    /\ o_fragment = <<Entry("tags", <<2, 1, 2>>), Entry("a", <<2, 1, 2>>),
                      Entry("b", <<1>>)>>
    /\ o_out = <<Entry("b", <<1>>), Entry("tags", <<1, 2>>),
                 Entry("a", <<2, 1, 2>>)>>


-----------------------------------------------------------------------------
(* Specification of RawTextEditingCommand._compose: management/misc.py *)

\* what filepath holds when there is no file
Absent == "absent"

\* serialized descriptions; the empty one is what _write_spec abstains on
Yamls == {"", "y1", "y2", "y3"}

\* filepath.is_file()
is_file(f) == f # Absent

InitCompose ==
    /\ c_update \in BOOLEAN
    /\ c_file0 \in Yamls \cup {Absent}
    /\ c_file = c_file0
    /\ c_data \in Yamls
    /\ c_pc = "start" /\ c_called = FALSE /\ c_errors = <<>>
    /\ SelIdle /\ ResIdle /\ CreIdle /\ TxtIdle /\ OrdIdle /\ AclIdle

CmpFrame ==
    /\ UNCHANGED <<c_update, c_file0, c_data>>
    /\ UNCHANGED sel_vars /\ UNCHANGED res_vars /\ UNCHANGED cre_vars
    /\ UNCHANGED txt_vars /\ UNCHANGED ord_vars /\ UNCHANGED acl_vars

\* _compose with is_update: there is no file at filepath
compose_update_refused ==
    /\ c_pc = "start" /\ c_update /\ ~is_file(c_file)
    /\ c_errors' = Append(c_errors, "File for prior description does not exist.")
    /\ c_pc' = "refused"
    /\ UNCHANGED <<c_file, c_called>>
    /\ CmpFrame

\* _compose without is_update: the branch taken when there is no file at
\* filepath
compose_new_refused ==
    /\ c_pc = "start" /\ ~c_update /\ ~is_file(c_file)
    /\ c_errors' = Append(c_errors, "File for new description already exists.")
    /\ c_pc' = "refused"
    /\ UNCHANGED <<c_file, c_called>>
    /\ CmpFrame

\* _compose goes on to _data_from_subject, with old_yaml read from the file
\* when is_update
compose_data_from_subject ==
    /\ c_pc = "start" /\ is_file(c_file)
    /\ c_called' = TRUE
    /\ c_pc' = "composed"
    /\ UNCHANGED <<c_file, c_errors>>
    /\ CmpFrame

\* _write_spec with a text that is not empty: the file is overwritten
write_spec ==
    /\ c_pc = "composed" /\ c_data # ""
    /\ c_file' = c_data
    /\ c_pc' = "written"
    /\ UNCHANGED <<c_called, c_errors>>
    /\ CmpFrame

\* _write_spec with an empty text: logging.info, nothing is written
write_spec_abstains ==
    /\ c_pc = "composed" /\ c_data = ""
    /\ c_pc' = "abstained"
    /\ UNCHANGED <<c_file, c_called, c_errors>>
    /\ CmpFrame

NextCompose ==
    \/ compose_update_refused \/ compose_new_refused
    \/ compose_data_from_subject
    \/ write_spec \/ write_spec_abstains

SpecCompose == InitCompose /\ [][NextCompose]_vars

\* C30: _compose writes a new description only when the target file does
\* not exist yet, and an update only when the file of the prior description
\* exists; in the refused cases it logs the error 'File for new description
\* already exists.' or 'File for prior description does not exist.', does
\* not call _data_from_subject and leaves the file unchanged.
C30_ComposeGuards ==
    /\ (c_pc = "written" /\ ~c_update) => ~is_file(c_file0)
    /\ (c_pc = "written" /\ c_update) => is_file(c_file0)
    /\ c_pc = "refused" =>
          /\ ~c_called /\ c_file = c_file0
          /\ c_errors =
               <<IF c_update THEN "File for prior description does not exist."
                 ELSE "File for new description already exists.">>
          /\ is_file(c_file0) <=> ~c_update

====
